---- MODULE Spec2Model ----
(***************************************************************************)
(* Model of the media-authenticity dApp:                                   *)
(*   - the item-level ledger contract (contracts/Upload.sol),              *)
(*   - the consensus-gated upload flow (client/src/components/FileUpload), *)
(*   - the display and its verification (client/src/components/Display),   *)
(*   - the trace query (client/src/components/TraceabilityModal),          *)
(*   - the owner-level ledger contract (unnamed/part_003).                 *)
(* The specifications share the variables:                                 *)
(*   LedgerSpec     any sequence of add / grantItemAccess /                *)
(*                  revokeItemAccess transactions by any callers,          *)
(*   UploadSpec     handleSubmit, its detector queries, the pin and the    *)
(*                  ledger add, with other callers adding concurrently,    *)
(*   ConsensusSpec  determineConsensus applied to arbitrary result lists,  *)
(*   DisplaySpec    getdata and concurrent verifyHash calls of one user    *)
(*                  whose records are being added,                         *)
(*   OwnerLevelSpec any sequence of add / allow / disallow / display calls *)
(*                  of the owner-level contract.                           *)
(***************************************************************************)
EXTENDS Bags, Integers, Sequences, FiniteSets, TLC

(* ------------------------------ bounds --------------------------------- *)
\* most grant/revoke events explored (caps the otherwise unbounded grant/revoke
\* cycles; adds are bounded by the number of content ids)
MaxAccessEvents == 3
\* longest result list handed to determineConsensus in ConsensusSpec
MaxVotes == 3
\* most verifyHash calls running at one time in DisplaySpec
MaxVerifications == 2
\* most events of the owner-level contract explored in OwnerLevelSpec
MaxOwnerLevelEvents == 3

(* ------------------------------ universes ------------------------------ *)
ZeroAddress == "0x0"
Addresses == {"0xA", "0xB", "0xC"}
AllAddresses == Addresses \cup {ZeroAddress}
\* content ids as the pinning service returns them (CID v1: 59 characters)
cidA == "bafkreiaaaaaaaaaaaaaaaaaaaaaaaaaaaaaaaaaaaaaaaaaaaaaaaaaaaaaaa"
cidB == "bafkreibbbbbbbbbbbbbbbbbbbbbbbbbbbbbbbbbbbbbbbbbbbbbbbbbbbbbbb"
\* the content id of the zero-length content
cidE == "bafkreieeeeeeeeeeeeeeeeeeeeeeeeeeeeeeeeeeeeeeeeeeeeeeeeeeeeeee"
\* content ids passed by callers that talk to the contract directly
CIDs == {cidA, cidB}
CallerCids == CIDs \cup {""}
\* every string used as a key of the contract's mappings
AllCids == CIDs \cup {cidE, ""}
\* fingerprints passed by callers that talk to the contract directly (a
\* SHA-256 digest in hex, cut to its first six bytes)
Hashes == {"559aead08264"}
AllHashes == Hashes \cup {""}
\* block.timestamp of the block a transaction is mined in
Timestamps == {1700000000}

VARIABLES
    \* ---- contracts/Upload.sol storage ----
    cidToRecord, userOwnedCIDs, itemAccess, sharedWithUserCIDs,
    sharedWithUserIndex, cidExists,
    \* the emitted events, in commit order
    events,
    \* the last transaction: its function and its revert reason ("" = success)
    lastCall,
    \* ---- FileUpload.js: component state (useState) and props ----
    file, isLoading, message, fileHash, account,
    \* ---- FileUpload.js: handleSubmit's position and locals ----
    pc, calculatedHash, fetchState, timer, responseValue, successfulResults,
    consensusOutcome, fileCid,
    \* requests issued by the running submission: detector queries per node,
    \* pin requests, contract.add calls, and whether its add was confirmed
    queriesIssued, pinRequests, addCalls, recorded,
    \* ---- Display.js: component state (useState) ----
    displayData, displayMessage, loading, verificationStatus,
    \* ---- Display.js: the running getdata and verifyHash calls ----
    getdataPc, verifications,
    \* ---- the owner-level contract (unnamed/part_003): storage ----
    imageData, ownership, accessList, userInAccessList,
    \* its emitted events in commit order, and its last transaction: function,
    \* msg.sender and revert reason ("" = success)
    ownerLevelEvents, ownerLevelCall

ledgerVars == <<cidToRecord, userOwnedCIDs, itemAccess, sharedWithUserCIDs,
                sharedWithUserIndex, cidExists, events>>

clientVars == <<file, isLoading, message, fileHash, account, pc, calculatedHash,
                fetchState, timer, responseValue, successfulResults,
                consensusOutcome, fileCid, queriesIssued, pinRequests, addCalls,
                recorded>>

displayVars == <<displayData, displayMessage, loading, verificationStatus,
                 getdataPc, verifications>>

ownerLevelVars == <<imageData, ownership, accessList, userInAccessList,
                    ownerLevelEvents, ownerLevelCall>>

vars == <<cidToRecord, userOwnedCIDs, itemAccess, sharedWithUserCIDs,
          sharedWithUserIndex, cidExists, events, lastCall,
          file, isLoading, message, fileHash, account, pc, calculatedHash,
          fetchState, timer, responseValue, successfulResults,
          consensusOutcome, fileCid, queriesIssued, pinRequests, addCalls,
          recorded, displayData, displayMessage, loading, verificationStatus,
          getdataPc, verifications, imageData, ownership, accessList,
          userInAccessList, ownerLevelEvents, ownerLevelCall>>

(* ------------------------- contracts/Upload.sol ------------------------ *)
\* Solidity's zero value of struct ImageRecord
ImageRecord(cid, hash, owner, ts) ==
    [ipfsCid |-> cid, imageHash |-> hash, owner |-> owner, timestamp |-> ts]

EmptyRecord == ImageRecord("", "", ZeroAddress, 0)

ImageAdded(owner, cid, hash, ts) ==
    [name |-> "ImageAdded", owner |-> owner, ipfsCid |-> cid,
     imageHash |-> hash, timestamp |-> ts, viewer |-> ZeroAddress]

\* emit ItemAccessGranted(_cid, _viewer, msg.sender): the two addresses swapped
ItemAccessGranted_swapped(cid, owner, viewer) ==
    [name |-> "ItemAccessGranted", owner |-> viewer, ipfsCid |-> cid,
     imageHash |-> "", timestamp |-> 0, viewer |-> owner]

ItemAccessGranted(cid, owner, viewer) ==
    [name |-> "ItemAccessGranted", owner |-> owner, ipfsCid |-> cid,
     imageHash |-> "", timestamp |-> 0, viewer |-> viewer]

\* emit ItemAccessRevoked(_cid, msg.sender, msg.sender): the owner logged as viewer
ItemAccessRevoked_ownerAsViewer(cid, owner, viewer) ==
    [name |-> "ItemAccessRevoked", owner |-> owner, ipfsCid |-> cid,
     imageHash |-> "", timestamp |-> 0, viewer |-> owner]

ItemAccessRevoked(cid, owner, viewer) ==
    [name |-> "ItemAccessRevoked", owner |-> owner, ipfsCid |-> cid,
     imageHash |-> "", timestamp |-> 0, viewer |-> viewer]

\* number of ItemAccessGranted / ItemAccessRevoked events in the log
accessEventCount ==
    Cardinality({i \in 1..Len(events) : events[i].name # "ImageAdded"})

LedgerInit ==
    /\ cidToRecord = [c \in AllCids |-> EmptyRecord]
    /\ userOwnedCIDs = [a \in AllAddresses |-> <<>>]
    /\ itemAccess = [c \in AllCids |-> [a \in AllAddresses |-> FALSE]]
    /\ sharedWithUserCIDs = [a \in AllAddresses |-> <<>>]
    /\ sharedWithUserIndex = [a \in AllAddresses |-> [c \in AllCids |-> 0]]
    /\ cidExists = [c \in AllCids |-> FALSE]
    /\ events = <<>>
    /\ lastCall = [op |-> "none", err |-> ""]

\* add without require(!cidExists[_ipfsCid])
addRevert_noDuplicateCheck(_ipfsCid, _imageHash) ==
    IF ~(Len(_ipfsCid) > 0) THEN "Upload: CID cannot be empty"
    ELSE IF ~(Len(_imageHash) > 0) THEN "Upload: Hash cannot be empty"
    ELSE ""

\* add without require(bytes(_imageHash).length > 0)
addRevert_noHashCheck(_ipfsCid, _imageHash) ==
    IF ~(Len(_ipfsCid) > 0) THEN "Upload: CID cannot be empty"
    ELSE IF ~(~cidExists[_ipfsCid]) THEN "Upload: CID already exists"
    ELSE ""

\* the first failing require of add, "" when all pass
addRevert(_ipfsCid, _imageHash) ==
    IF ~(Len(_ipfsCid) > 0) THEN "Upload: CID cannot be empty"
    ELSE IF ~(Len(_imageHash) > 0) THEN "Upload: Hash cannot be empty"
    ELSE IF ~(~cidExists[_ipfsCid]) THEN "Upload: CID already exists"
    ELSE ""

\* the storage writes and the event of a successful add
addEffect(sender, _ipfsCid, _imageHash, blockTimestamp) ==
    LET owner == sender
        newRecord == ImageRecord(_ipfsCid, _imageHash, owner, blockTimestamp)
    IN  /\ cidToRecord' = [cidToRecord EXCEPT ![_ipfsCid] = newRecord]
        /\ userOwnedCIDs' = [userOwnedCIDs EXCEPT ![owner] = Append(@, _ipfsCid)]
        /\ cidExists' = [cidExists EXCEPT ![_ipfsCid] = TRUE]
        /\ events' = Append(events, ImageAdded(owner, _ipfsCid, _imageHash, blockTimestamp))
        /\ UNCHANGED <<itemAccess, sharedWithUserCIDs, sharedWithUserIndex>>

\* one add transaction: a revert leaves the storage and the log untouched
add(sender, _ipfsCid, _imageHash, blockTimestamp) ==
    LET err == addRevert(_ipfsCid, _imageHash)
    IN  /\ lastCall' = [op |-> "add", err |-> err]
        /\ IF err # ""
           THEN UNCHANGED ledgerVars
           ELSE addEffect(sender, _ipfsCid, _imageHash, blockTimestamp)

\* grantItemAccess without require(record.owner == msg.sender)
grantRevert_noOwnerCheck(sender, _cid, _viewer) ==
    IF ~cidExists[_cid] THEN "Upload: Item does not exist"
    ELSE IF ~(_viewer # ZeroAddress) THEN "Upload: Invalid viewer address"
    ELSE IF ~(_viewer # sender) THEN "Upload: Cannot grant access to yourself"
    ELSE IF ~(~itemAccess[_cid][_viewer]) THEN "Upload: Access already granted"
    ELSE ""

\* grantItemAccess without require(_viewer != msg.sender)
grantRevert_noSelfCheck(sender, _cid, _viewer) ==
    IF ~cidExists[_cid] THEN "Upload: Item does not exist"
    ELSE IF ~(_viewer # ZeroAddress) THEN "Upload: Invalid viewer address"
    ELSE IF ~(cidToRecord[_cid].owner = sender) THEN "Upload: Only owner can grant access"
    ELSE IF ~(~itemAccess[_cid][_viewer]) THEN "Upload: Access already granted"
    ELSE ""

\* grantItemAccess without require(!itemAccess[_cid][_viewer])
grantRevert_noAlreadyGrantedCheck(sender, _cid, _viewer) ==
    IF ~cidExists[_cid] THEN "Upload: Item does not exist"
    ELSE IF ~(_viewer # ZeroAddress) THEN "Upload: Invalid viewer address"
    ELSE IF ~(cidToRecord[_cid].owner = sender) THEN "Upload: Only owner can grant access"
    ELSE IF ~(_viewer # sender) THEN "Upload: Cannot grant access to yourself"
    ELSE ""

\* the first failing require of grantItemAccess, "" when all pass
grantRevert(sender, _cid, _viewer) ==
    IF ~cidExists[_cid] THEN "Upload: Item does not exist"
    ELSE IF ~(_viewer # ZeroAddress) THEN "Upload: Invalid viewer address"
    ELSE IF ~(cidToRecord[_cid].owner = sender) THEN "Upload: Only owner can grant access"
    ELSE IF ~(_viewer # sender) THEN "Upload: Cannot grant access to yourself"
    ELSE IF ~(~itemAccess[_cid][_viewer]) THEN "Upload: Access already granted"
    ELSE ""

\* grantItemAccess writing the viewer into the record it reads (record.owner = _viewer)
grantItemAccess_transfersOwner(sender, _cid, _viewer) ==
    LET err == grantRevert(sender, _cid, _viewer)
    IN  /\ lastCall' = [op |-> "grantItemAccess", err |-> err]
        /\ IF err # ""
           THEN UNCHANGED ledgerVars
           ELSE /\ accessEventCount < MaxAccessEvents
                /\ itemAccess' = [itemAccess EXCEPT ![_cid][_viewer] = TRUE]
                /\ sharedWithUserIndex' =
                       [sharedWithUserIndex EXCEPT ![_viewer][_cid] =
                            Len(sharedWithUserCIDs[_viewer]) + 1]
                /\ sharedWithUserCIDs' =
                       [sharedWithUserCIDs EXCEPT ![_viewer] = Append(@, _cid)]
                /\ events' = Append(events, ItemAccessGranted(_cid, sender, _viewer))
                /\ cidToRecord' = [cidToRecord EXCEPT ![_cid].owner = _viewer]
                /\ UNCHANGED <<userOwnedCIDs, cidExists>>

\* grantItemAccess without sharedWithUserCIDs[_viewer].push(_cid) and its index
grantItemAccess_noListPush(sender, _cid, _viewer) ==
    LET err == grantRevert(sender, _cid, _viewer)
    IN  /\ lastCall' = [op |-> "grantItemAccess", err |-> err]
        /\ IF err # ""
           THEN UNCHANGED ledgerVars
           ELSE /\ accessEventCount < MaxAccessEvents
                /\ itemAccess' = [itemAccess EXCEPT ![_cid][_viewer] = TRUE]
                /\ events' = Append(events, ItemAccessGranted(_cid, sender, _viewer))
                /\ UNCHANGED <<cidToRecord, userOwnedCIDs, cidExists,
                               sharedWithUserCIDs, sharedWithUserIndex>>

\* grantItemAccess without sharedWithUserIndex[_viewer][_cid] = length
grantItemAccess_noIndex(sender, _cid, _viewer) ==
    LET err == grantRevert(sender, _cid, _viewer)
    IN  /\ lastCall' = [op |-> "grantItemAccess", err |-> err]
        /\ IF err # ""
           THEN UNCHANGED ledgerVars
           ELSE /\ accessEventCount < MaxAccessEvents
                /\ itemAccess' = [itemAccess EXCEPT ![_cid][_viewer] = TRUE]
                /\ sharedWithUserCIDs' =
                       [sharedWithUserCIDs EXCEPT ![_viewer] = Append(@, _cid)]
                /\ events' = Append(events, ItemAccessGranted(_cid, sender, _viewer))
                /\ UNCHANGED <<cidToRecord, userOwnedCIDs, cidExists, sharedWithUserIndex>>

grantItemAccess(sender, _cid, _viewer) ==
    LET err == grantRevert(sender, _cid, _viewer)
    IN  /\ lastCall' = [op |-> "grantItemAccess", err |-> err]
        /\ IF err # ""
           THEN UNCHANGED ledgerVars
           ELSE /\ accessEventCount < MaxAccessEvents
                /\ itemAccess' = [itemAccess EXCEPT ![_cid][_viewer] = TRUE]
                /\ sharedWithUserIndex' =
                       [sharedWithUserIndex EXCEPT ![_viewer][_cid] =
                            Len(sharedWithUserCIDs[_viewer]) + 1]
                /\ sharedWithUserCIDs' =
                       [sharedWithUserCIDs EXCEPT ![_viewer] = Append(@, _cid)]
                /\ events' = Append(events, ItemAccessGranted(_cid, sender, _viewer))
                /\ UNCHANGED <<cidToRecord, userOwnedCIDs, cidExists>>

\* revokeItemAccess without require(record.owner == msg.sender)
revokeRevert_noOwnerCheck(sender, _cid, _viewer) ==
    IF ~cidExists[_cid] THEN "Upload: Item does not exist"
    ELSE IF ~itemAccess[_cid][_viewer] THEN "Upload: Access not currently granted"
    ELSE IF ~(sharedWithUserIndex[_viewer][_cid] > 0)
         THEN "Upload: CID not found in viewer's shared list index"
    ELSE IF ~(sharedWithUserIndex[_viewer][_cid] - 1 < Len(sharedWithUserCIDs[_viewer]))
         THEN "Upload: Index out of bounds"
    ELSE ""

\* revokeItemAccess without require(itemAccess[_cid][_viewer])
revokeRevert_noGrantCheck(sender, _cid, _viewer) ==
    IF ~cidExists[_cid] THEN "Upload: Item does not exist"
    ELSE IF ~(cidToRecord[_cid].owner = sender) THEN "Upload: Only owner can revoke access"
    ELSE IF ~(sharedWithUserIndex[_viewer][_cid] > 0)
         THEN "Upload: CID not found in viewer's shared list index"
    ELSE IF ~(sharedWithUserIndex[_viewer][_cid] - 1 < Len(sharedWithUserCIDs[_viewer]))
         THEN "Upload: Index out of bounds"
    ELSE ""

\* the first failing require of revokeItemAccess, "" when all pass
revokeRevert(sender, _cid, _viewer) ==
    IF ~cidExists[_cid] THEN "Upload: Item does not exist"
    ELSE IF ~(cidToRecord[_cid].owner = sender) THEN "Upload: Only owner can revoke access"
    ELSE IF ~itemAccess[_cid][_viewer] THEN "Upload: Access not currently granted"
    ELSE IF ~(sharedWithUserIndex[_viewer][_cid] > 0)
         THEN "Upload: CID not found in viewer's shared list index"
    ELSE IF ~(sharedWithUserIndex[_viewer][_cid] - 1 < Len(sharedWithUserCIDs[_viewer]))
         THEN "Upload: Index out of bounds"
    ELSE ""

\* the removal as a bare pop, without moving the last element into the hole
swapAndPop_popOnly(sharedList, indexToRemove) ==
    SubSeq(sharedList, 1, Len(sharedList) - 1)

\* sharedList after the swap with the last element and the pop
\* (indexToRemove is 0-based as in the contract, sequences are 1-based)
swapAndPop(sharedList, indexToRemove) ==
    LET last == Len(sharedList)
        swapped == IF indexToRemove < last - 1
                   THEN [sharedList EXCEPT ![indexToRemove + 1] = sharedList[last]]
                   ELSE sharedList
    IN  SubSeq(swapped, 1, last - 1)

\* revokeItemAccess without itemAccess[_cid][_viewer] = false
revokeItemAccess_keepsGrant(sender, _cid, _viewer) ==
    LET err == revokeRevert(sender, _cid, _viewer)
        indexToRemove == sharedWithUserIndex[_viewer][_cid] - 1
        sharedList == sharedWithUserCIDs[_viewer]
        lastCid == sharedList[Len(sharedList)]
        moved == IF indexToRemove < Len(sharedList) - 1
                 THEN [sharedWithUserIndex[_viewer] EXCEPT ![lastCid] = indexToRemove + 1]
                 ELSE sharedWithUserIndex[_viewer]
    IN  /\ lastCall' = [op |-> "revokeItemAccess", err |-> err]
        /\ IF err # ""
           THEN UNCHANGED ledgerVars
           ELSE /\ accessEventCount < MaxAccessEvents
                /\ sharedWithUserCIDs' =
                       [sharedWithUserCIDs EXCEPT ![_viewer] = swapAndPop(sharedList, indexToRemove)]
                /\ sharedWithUserIndex' =
                       [sharedWithUserIndex EXCEPT ![_viewer] = [moved EXCEPT ![_cid] = 0]]
                /\ events' = Append(events, ItemAccessRevoked(_cid, sender, _viewer))
                /\ UNCHANGED <<cidToRecord, userOwnedCIDs, cidExists, itemAccess>>

\* revokeItemAccess without sharedWithUserIndex[_viewer][lastCid] = indexToRemove + 1
revokeItemAccess_staleMovedIndex(sender, _cid, _viewer) ==
    LET err == revokeRevert(sender, _cid, _viewer)
        indexToRemove == sharedWithUserIndex[_viewer][_cid] - 1
        sharedList == sharedWithUserCIDs[_viewer]
    IN  /\ lastCall' = [op |-> "revokeItemAccess", err |-> err]
        /\ IF err # ""
           THEN UNCHANGED ledgerVars
           ELSE /\ accessEventCount < MaxAccessEvents
                /\ itemAccess' = [itemAccess EXCEPT ![_cid][_viewer] = FALSE]
                /\ sharedWithUserCIDs' =
                       [sharedWithUserCIDs EXCEPT ![_viewer] = swapAndPop(sharedList, indexToRemove)]
                /\ sharedWithUserIndex' = [sharedWithUserIndex EXCEPT ![_viewer][_cid] = 0]
                /\ events' = Append(events, ItemAccessRevoked(_cid, sender, _viewer))
                /\ UNCHANGED <<cidToRecord, userOwnedCIDs, cidExists>>

revokeItemAccess(sender, _cid, _viewer) ==
    LET err == revokeRevert(sender, _cid, _viewer)
        indexToRemove == sharedWithUserIndex[_viewer][_cid] - 1
        sharedList == sharedWithUserCIDs[_viewer]
        lastCid == sharedList[Len(sharedList)]
        moved == IF indexToRemove < Len(sharedList) - 1
                 THEN [sharedWithUserIndex[_viewer] EXCEPT ![lastCid] = indexToRemove + 1]
                 ELSE sharedWithUserIndex[_viewer]
    IN  /\ lastCall' = [op |-> "revokeItemAccess", err |-> err]
        /\ IF err # ""
           THEN UNCHANGED ledgerVars
           ELSE /\ accessEventCount < MaxAccessEvents
                /\ itemAccess' = [itemAccess EXCEPT ![_cid][_viewer] = FALSE]
                /\ sharedWithUserCIDs' =
                       [sharedWithUserCIDs EXCEPT ![_viewer] = swapAndPop(sharedList, indexToRemove)]
                /\ sharedWithUserIndex' =
                       [sharedWithUserIndex EXCEPT ![_viewer] = [moved EXCEPT ![_cid] = 0]]
                /\ events' = Append(events, ItemAccessRevoked(_cid, sender, _viewer))
                /\ UNCHANGED <<cidToRecord, userOwnedCIDs, cidExists>>

\* one returned row of getAccessibleCIDsAndHashes (cids[i], hashes[i], owners[i])
Row(cid) ==
    [cid |-> cid, hash |-> cidToRecord[cid].imageHash, owner |-> cidToRecord[cid].owner]

\* the second loop: shared items still granted and not owned by the caller
RECURSIVE sharedRows(_, _, _, _, _)
sharedRows(caller, sharedCIDs, i, temp, maxCapacity) ==
    IF i > Len(sharedCIDs) THEN temp
    ELSE LET cid == sharedCIDs[i]
         IN  IF itemAccess[cid][caller] /\ cidToRecord[cid].owner # caller
             THEN IF Len(temp) < maxCapacity
                  THEN sharedRows(caller, sharedCIDs, i + 1, Append(temp, Row(cid)), maxCapacity)
                  ELSE temp
             ELSE sharedRows(caller, sharedCIDs, i + 1, temp, maxCapacity)

\* the owned-items loop stopping one short (i < ownedCount - 1)
getAccessibleCIDsAndHashes_ownedOffByOne(caller) ==
    LET ownedCIDs == userOwnedCIDs[caller]
        sharedCIDs == sharedWithUserCIDs[caller]
        maxCapacity == Len(ownedCIDs) + Len(sharedCIDs)
        ownedRows == [i \in 1..(Len(ownedCIDs) - 1) |-> Row(ownedCIDs[i])]
    IN  sharedRows(caller, sharedCIDs, 1, ownedRows, maxCapacity)

\* maxCapacity counting the owned items only (ownedCount instead of ownedCount + sharedCount)
getAccessibleCIDsAndHashes_capacityOwnedOnly(caller) ==
    LET ownedCIDs == userOwnedCIDs[caller]
        sharedCIDs == sharedWithUserCIDs[caller]
        maxCapacity == Len(ownedCIDs)
        ownedRows == [i \in 1..Len(ownedCIDs) |-> Row(ownedCIDs[i])]
    IN  sharedRows(caller, sharedCIDs, 1, ownedRows, maxCapacity)

getAccessibleCIDsAndHashes(caller) ==
    LET ownedCIDs == userOwnedCIDs[caller]
        sharedCIDs == sharedWithUserCIDs[caller]
        maxCapacity == Len(ownedCIDs) + Len(sharedCIDs)
        ownedRows == [i \in 1..Len(ownedCIDs) |-> Row(ownedCIDs[i])]
    IN  sharedRows(caller, sharedCIDs, 1, ownedRows, maxCapacity)

\* checkItemAccess without if (!cidExists[_cid]) return false
checkItemAccess_noExistsCheck(_cid, _viewer) ==
    IF cidToRecord[_cid].owner = _viewer THEN TRUE
    ELSE itemAccess[_cid][_viewer]

\* checkItemAccess without if (record.owner == _viewer) return true
checkItemAccess_noOwnerBranch(_cid, _viewer) ==
    IF ~cidExists[_cid] THEN FALSE
    ELSE itemAccess[_cid][_viewer]

checkItemAccess(_cid, _viewer) ==
    IF ~cidExists[_cid] THEN FALSE
    ELSE IF cidToRecord[_cid].owner = _viewer THEN TRUE
    ELSE itemAccess[_cid][_viewer]

(* ---------------- client/src/components/FileUpload.js ------------------ *)
\* JavaScript numbers that matter here are fractions; a number is <<num, den>>, den > 0
RatLe(a, b) == a[1] * b[2] <= b[1] * a[2]
RatGt(a, b) == a[1] * b[2] > b[1] * a[2]
RatEq(a, b) == a[1] * b[2] = b[1] * a[2]
RECURSIVE gcd(_, _)
gcd(a, b) == IF b = 0 THEN a ELSE gcd(b, a % b)
\* a fraction in lowest terms
Reduce(a) ==
    LET g == gcd(IF a[1] < 0 THEN -a[1] ELSE a[1], a[2])
    IN  IF g = 0 THEN a ELSE <<a[1] \div g, a[2] \div g>>
RatAdd(a, b) == Reduce(<<a[1] * b[2] + b[1] * a[2], a[2] * b[2]>>)
RatDivInt(a, n) == <<a[1], a[2] * n>>
RatMulInt(a, n) == <<a[1] * n, a[2]>>
Zero == <<0, 1>>
One == <<1, 1>>

CONSENSUS_THRESHOLD == <<1, 2>>
DEEPFAKE_NODE_URLS ==
    <<"http://localhost:5001/predict", "http://localhost:5002/predict",
      "http://localhost:5003/predict">>
Nodes == 1..Len(DEEPFAKE_NODE_URLS)

\* a parsed JSON body: the two fields handleSubmit and determineConsensus read,
\* each with its typeof
Body(tFake, isFake, tConf, conf) ==
    [typeof_is_deepfake |-> tFake, is_deepfake |-> isFake,
     typeof_confidence |-> tConf, confidence |-> conf]
Vote(isFake, conf) == Body("boolean", isFake, "number", conf)
\* a body without the expected fields, e.g. {"error": "..."} or {}
Malformed == Body("undefined", FALSE, "undefined", Zero)
\* a body whose is_deepfake is not a boolean although its confidence is a number
Unclear(conf) == Body("string", FALSE, "number", conf)
NoValue == Body("none", FALSE, "none", Zero)

\* the forEach without the range check on confidence
RECURSIVE tally_noRangeCheck(_, _, _)
tally_noRangeCheck(results, i, acc) ==
    IF i > Len(results) THEN acc
    ELSE LET result == results[i]
             confidenceOk == result.typeof_confidence = "number"
         IN  IF ~confidenceOk THEN tally_noRangeCheck(results, i + 1, acc)
             ELSE IF result.typeof_is_deepfake = "boolean" /\ result.is_deepfake = TRUE
             THEN tally_noRangeCheck(results, i + 1,
                        [acc EXCEPT !.fakeVotes = @ + 1,
                                    !.totalConfidenceFake = RatAdd(@, result.confidence)])
             ELSE IF result.typeof_is_deepfake = "boolean" /\ result.is_deepfake = FALSE
             THEN tally_noRangeCheck(results, i + 1,
                        [acc EXCEPT !.realVotes = @ + 1,
                                    !.totalConfidenceReal = RatAdd(@, result.confidence)])
             ELSE tally_noRangeCheck(results, i + 1, acc)

\* the forEach adding every confidence to the sum of the "real" side as well
RECURSIVE tally_sharedSum(_, _, _)
tally_sharedSum(results, i, acc) ==
    IF i > Len(results) THEN acc
    ELSE LET result == results[i]
             confidenceOk == /\ result.typeof_confidence = "number"
                             /\ RatLe(Zero, result.confidence)
                             /\ RatLe(result.confidence, One)
         IN  IF ~confidenceOk THEN tally_sharedSum(results, i + 1, acc)
             ELSE IF result.typeof_is_deepfake = "boolean" /\ result.is_deepfake = TRUE
             THEN tally_sharedSum(results, i + 1,
                        [acc EXCEPT !.fakeVotes = @ + 1,
                                    !.totalConfidenceFake = RatAdd(@, result.confidence),
                                    !.totalConfidenceReal = RatAdd(@, result.confidence)])
             ELSE IF result.typeof_is_deepfake = "boolean" /\ result.is_deepfake = FALSE
             THEN tally_sharedSum(results, i + 1,
                        [acc EXCEPT !.realVotes = @ + 1,
                                    !.totalConfidenceReal = RatAdd(@, result.confidence)])
             ELSE tally_sharedSum(results, i + 1, acc)

\* the running sums of the forEach in determineConsensus
RECURSIVE tally(_, _, _)
tally(results, i, acc) ==
    IF i > Len(results) THEN acc
    ELSE LET result == results[i]
             confidenceOk == /\ result.typeof_confidence = "number"
                             /\ RatLe(Zero, result.confidence)
                             /\ RatLe(result.confidence, One)
         IN  IF ~confidenceOk THEN tally(results, i + 1, acc)
             ELSE IF result.typeof_is_deepfake = "boolean" /\ result.is_deepfake = TRUE
             THEN tally(results, i + 1,
                        [acc EXCEPT !.fakeVotes = @ + 1,
                                    !.totalConfidenceFake = RatAdd(@, result.confidence)])
             ELSE IF result.typeof_is_deepfake = "boolean" /\ result.is_deepfake = FALSE
             THEN tally(results, i + 1,
                        [acc EXCEPT !.realVotes = @ + 1,
                                    !.totalConfidenceReal = RatAdd(@, result.confidence)])
             ELSE tally(results, i + 1, acc)

\* the object determineConsensus returns; a field it does not set is <<>> or ""
Outcome(consensus, confidence, votes, reason) ==
    [consensus |-> consensus, confidence |-> confidence, votes |-> votes, reason |-> reason]
NoOutcome == Outcome("none", <<>>, "", "")

\* ratio >= CONSENSUS_THRESHOLD
exceedsThreshold_atLeast(ratio) == RatLe(CONSENSUS_THRESHOLD, ratio)

\* ratio > CONSENSUS_THRESHOLD
exceedsThreshold(ratio) == RatGt(ratio, CONSENSUS_THRESHOLD)

determineConsensus(results) ==
    IF Len(results) = 0
    THEN Outcome("inconclusive", <<>>, "", "No valid responses from nodes.")
    ELSE
    LET t == tally(results, 1, [realVotes |-> 0, fakeVotes |-> 0,
                                totalConfidenceReal |-> Zero, totalConfidenceFake |-> Zero])
        realVotes == t.realVotes
        fakeVotes == t.fakeVotes
        totalVotes == realVotes + fakeVotes
        realRatio == <<realVotes, totalVotes>>
        fakeRatio == <<fakeVotes, totalVotes>>
    IN  IF totalVotes = 0
        THEN Outcome("inconclusive", <<>>, "",
                     "No nodes provided a clear real/fake vote with valid confidence.")
        ELSE IF exceedsThreshold(realRatio)
        THEN Outcome("real",
                     IF realVotes > 0
                     THEN RatMulInt(RatDivInt(t.totalConfidenceReal, realVotes), 100)
                     ELSE Zero,
                     ToString(realVotes) \o "/" \o ToString(totalVotes), "")
        ELSE IF exceedsThreshold(fakeRatio)
        THEN Outcome("deepfake",
                     IF fakeVotes > 0
                     THEN RatMulInt(RatDivInt(t.totalConfidenceFake, fakeVotes), 100)
                     ELSE Zero,
                     ToString(fakeVotes) \o "/" \o ToString(totalVotes), "")
        ELSE Outcome("inconclusive", <<>>, "",
                     "No clear majority (" \o ToString(realVotes) \o " real, "
                         \o ToString(fakeVotes) \o " fake).")

\* file contents the user can pick, and "no file" (null)
\* the files a user selects: a one-byte file and the empty file
Files == {"A", "E"}
NoFile == "null"
NoAccount == ""

\* a buffer is the string of its bytes: "A", "B" and the zero-length ""
\* file.arrayBuffer(): file "E" is the empty file
arrayBuffer(f) == IF f = "E" THEN "" ELSE f
byteLength(buffer) == Len(buffer)

\* crypto.subtle.digest("SHA-256", buffer), cut to its first six bytes
digest(buffer) ==
    IF buffer = "A" THEN <<85, 154, 234, 208, 130, 100>>
    ELSE IF buffer = "" THEN <<227, 176, 196, 66, 152, 252>>
    ELSE <<223, 126, 112, 229, 2, 21>>

HexDigits == <<"0", "1", "2", "3", "4", "5", "6", "7", "8", "9",
               "a", "b", "c", "d", "e", "f">>
\* b.toString(16).padStart(2, "0")
byteToHex(b) ==
    IF b < 16 THEN "0" \o HexDigits[b + 1]
    ELSE HexDigits[(b \div 16) + 1] \o HexDigits[(b % 16) + 1]

RECURSIVE join(_)
join(strs) == IF strs = <<>> THEN "" ELSE Head(strs) \o join(Tail(strs))

calculateFileHash(f) ==
    LET buffer == arrayBuffer(f)
        hashArray == digest(buffer)
    IN  join([i \in 1..Len(hashArray) |-> byteToHex(hashArray[i])])

\* the content store is content-addressed: IpfsHash of a pinned file
IpfsHash(f) == IF f = "A" THEN cidA ELSE IF f = "E" THEN cidE ELSE cidB
\* the content ids of the files a user of the client can submit
PinnedCids == {IpfsHash(f) : f \in Files}

\* bodies a detector node can answer with
NodeBodies == {Vote(FALSE, <<7, 10>>), Vote(TRUE, <<3, 5>>),
               Vote(FALSE, <<3, 2>>), Malformed}

ClientInit ==
    /\ file = NoFile
    /\ isLoading = FALSE
    /\ message = ""
    /\ fileHash = ""
    /\ pc = "idle"
    /\ calculatedHash = ""
    /\ fetchState = [n \in Nodes |-> "none"]
    /\ timer = [n \in Nodes |-> "none"]
    /\ responseValue = [n \in Nodes |-> NoValue]
    /\ successfulResults = <<>>
    /\ consensusOutcome = NoOutcome
    /\ fileCid = ""
    /\ queriesIssued = [n \in Nodes |-> 0]
    /\ pinRequests = 0
    /\ addCalls = 0
    /\ recorded = FALSE

\* onChange of the file input (disabled while loading or without an account)
retrieveFile(selected, typeAccepted) ==
    /\ pc = "idle" /\ ~isLoading /\ account # NoAccount
    /\ IF selected # NoFile
       THEN IF ~typeAccepted
            THEN /\ message' = "Unsupported file type"
                 /\ file' = NoFile
                 /\ fileHash' = ""
            ELSE /\ file' = selected
                 /\ message' = ""
                 /\ fileHash' = ""
       ELSE /\ file' = NoFile
            /\ fileHash' = ""
            /\ UNCHANGED message
    /\ UNCHANGED <<isLoading, account, pc, calculatedHash, fetchState, timer,
                   responseValue, successfulResults, consensusOutcome, fileCid,
                   queriesIssued, pinRequests, addCalls, recorded>>
    /\ UNCHANGED <<ledgerVars, lastCall, displayVars, ownerLevelVars>>

\* handleSubmit up to its first await (calculateFileHash)
handleSubmit ==
    /\ pc = "idle"
    /\ IF file = NoFile
       THEN /\ message' = "Please select an image or video file first."
            /\ UNCHANGED <<isLoading, fileHash, pc, calculatedHash, fetchState, timer,
                           responseValue, successfulResults, consensusOutcome, fileCid,
                           queriesIssued, pinRequests, addCalls, recorded>>
       ELSE IF account = NoAccount
       THEN /\ message' = "Wallet not connected or contract not loaded."
            /\ UNCHANGED <<isLoading, fileHash, pc, calculatedHash, fetchState, timer,
                           responseValue, successfulResults, consensusOutcome, fileCid,
                           queriesIssued, pinRequests, addCalls, recorded>>
       ELSE /\ isLoading' = TRUE
            /\ message' = "Calculating file hash..."
            /\ fileHash' = ""
            /\ pc' = "hashing"
            \* a new invocation: fresh locals, nothing issued yet
            /\ calculatedHash' = ""
            /\ fetchState' = [n \in Nodes |-> "none"]
            /\ timer' = [n \in Nodes |-> "none"]
            /\ responseValue' = [n \in Nodes |-> NoValue]
            /\ successfulResults' = <<>>
            /\ consensusOutcome' = NoOutcome
            /\ fileCid' = ""
            /\ queriesIssued' = [n \in Nodes |-> 0]
            /\ pinRequests' = 0
            /\ addCalls' = 0
            /\ recorded' = FALSE
    /\ UNCHANGED <<file, account>>
    /\ UNCHANGED <<ledgerVars, lastCall, displayVars, ownerLevelVars>>

\* the catch block followed by finally: one final status, loading cleared
catchFinally(status) ==
    /\ message' = status
    /\ isLoading' = FALSE
    /\ pc' = "idle"

\* calculateFileHash resolved: steps 1-2, one fetch and one timer per node url
hashResolved ==
    /\ pc = "hashing"
    /\ calculatedHash' = calculateFileHash(file)
    /\ fileHash' = calculateFileHash(file)
    /\ fetchState' = [n \in Nodes |-> "pending"]
    /\ timer' = [n \in Nodes |-> "armed"]
    /\ queriesIssued' = [n \in Nodes |-> queriesIssued[n] + 1]
    /\ message' = "Sent requests to nodes. Awaiting responses..."
    /\ pc' = "awaitNodes"
    /\ UNCHANGED <<file, isLoading, account, responseValue, successfulResults,
                   consensusOutcome, fileCid, pinRequests, addCalls, recorded>>
    /\ UNCHANGED <<ledgerVars, lastCall, displayVars, ownerLevelVars>>

nodeUnchanged ==
    /\ UNCHANGED <<file, isLoading, message, fileHash, account, pc, calculatedHash,
                   successfulResults, consensusOutcome, fileCid, queriesIssued,
                   pinRequests, addCalls, recorded>>
    /\ UNCHANGED <<ledgerVars, lastCall, displayVars, ownerLevelVars>>

\* fetch resolved with the response headers: the .then callback clears the
\* timer and starts reading the body (response.json())
responseHeaders(n, ok) ==
    /\ pc = "awaitNodes" /\ fetchState[n] = "pending"
    /\ timer' = [timer EXCEPT ![n] = "cleared"]
    /\ fetchState' = [fetchState EXCEPT ![n] = IF ok THEN "bodyOk" ELSE "bodyError"]
    /\ UNCHANGED responseValue
    /\ nodeUnchanged

\* fetch rejected (connection refused, CORS, ...): the .catch callback
networkError(n) ==
    /\ pc = "awaitNodes" /\ fetchState[n] = "pending"
    /\ timer' = [timer EXCEPT ![n] = "cleared"]
    /\ fetchState' = [fetchState EXCEPT ![n] = "rejected"]
    /\ UNCHANGED responseValue
    /\ nodeUnchanged

\* setTimeout callback: controller.abort() rejects the pending fetch (AbortError)
timeout(n) ==
    /\ timer[n] = "armed"
    /\ timer' = [timer EXCEPT ![n] = "fired"]
    /\ fetchState' = [fetchState EXCEPT ![n] =
                          IF @ \in {"pending", "bodyOk", "bodyError"} THEN "rejected" ELSE @]
    /\ UNCHANGED responseValue
    /\ nodeUnchanged

\* the body arrived: response.json() settles.  For an ok response a parsed
\* body fulfils the query; an unparsable body, or any body of a non-ok
\* response, rejects it
bodyArrives(n, body, parses) ==
    /\ pc = "awaitNodes" /\ fetchState[n] \in {"bodyOk", "bodyError"}
    /\ IF fetchState[n] = "bodyOk" /\ parses
       THEN /\ fetchState' = [fetchState EXCEPT ![n] = "fulfilled"]
            /\ responseValue' = [responseValue EXCEPT ![n] = body]
       ELSE /\ fetchState' = [fetchState EXCEPT ![n] = "rejected"]
            /\ UNCHANGED responseValue
    /\ UNCHANGED timer
    /\ nodeUnchanged

\* a promise of the detector query is settled once it is fulfilled or rejected
settled(n) == fetchState[n] \in {"fulfilled", "rejected"}

\* a join that resolves with the first settled promise (Promise.race / Promise.any)
allSettled_first == \E n \in Nodes : settled(n)

\* Promise.allSettled(promises) resolves when every promise is settled
allSettled == \A n \in Nodes : settled(n)

\* step 3 giving up at the first rejected promise
RECURSIVE collect_stopAtRejected(_, _)
collect_stopAtRejected(i, acc) ==
    IF i > Len(DEEPFAKE_NODE_URLS) THEN acc
    ELSE IF fetchState[i] = "rejected" THEN acc
    ELSE IF /\ fetchState[i] = "fulfilled"
            /\ responseValue[i].typeof_is_deepfake = "boolean"
            /\ responseValue[i].typeof_confidence = "number"
         THEN collect_stopAtRejected(i + 1, Append(acc, responseValue[i]))
         ELSE collect_stopAtRejected(i + 1, acc)

\* step 3: the values of the fulfilled promises that have the expected shape,
\* in the order of DEEPFAKE_NODE_URLS
RECURSIVE collect(_, _)
collect(i, acc) ==
    IF i > Len(DEEPFAKE_NODE_URLS) THEN acc
    ELSE IF /\ fetchState[i] = "fulfilled"
            /\ responseValue[i].typeof_is_deepfake = "boolean"
            /\ responseValue[i].typeof_confidence = "number"
         THEN collect(i + 1, Append(acc, responseValue[i]))
         ELSE collect(i + 1, acc)

\* step 5 without the early return for "inconclusive"
uploadBlocked_deepfakeOnly(outcome) == outcome.consensus = "deepfake"

\* step 5: the two early returns that cancel the upload
uploadBlocked(outcome) ==
    outcome.consensus = "deepfake" \/ outcome.consensus = "inconclusive"

\* steps 3-7, run without an await once Promise.allSettled resolved: tally,
\* decide, then either return or send the pin request
afterAllSettled ==
    /\ pc = "awaitNodes" /\ allSettled
    /\ LET results == collect(1, <<>>)
           outcome == determineConsensus(results)
       IN  /\ successfulResults' = results
           /\ consensusOutcome' = outcome
           /\ IF uploadBlocked(outcome)
              THEN /\ message' = IF outcome.consensus = "deepfake"
                                 THEN "Consensus: Deepfake Detected. Upload cancelled."
                                 ELSE "Consensus Inconclusive. Upload cancelled."
                   /\ file' = NoFile
                   /\ isLoading' = FALSE
                   /\ pc' = "idle"
                   /\ UNCHANGED pinRequests
              ELSE /\ message' = "Uploading file to IPFS via Pinata..."
                   /\ pinRequests' = pinRequests + 1
                   /\ pc' = "pinning"
                   /\ UNCHANGED <<file, isLoading>>
    /\ UNCHANGED <<fileHash, account, calculatedHash, fetchState, timer, responseValue,
                   fileCid, queriesIssued, addCalls, recorded>>
    /\ UNCHANGED <<ledgerVars, lastCall, displayVars, ownerLevelVars>>

\* the pin step without if (!fileCid) throw: a response without IpfsHash goes on
pinResponse_noCidCheck(kind) ==
    /\ pc = "pinning"
    /\ IF kind \in {"pinned", "noIpfsHash"}
       THEN /\ fileCid' = (IF kind = "pinned" THEN IpfsHash(file) ELSE "")
            /\ message' = "File uploaded to IPFS. Adding to blockchain..."
            /\ addCalls' = addCalls + 1
            /\ pc' = "sending"
            /\ UNCHANGED isLoading
       ELSE /\ catchFinally(IF kind = "httpError" THEN "Pinata upload error"
                            ELSE "Upload failed")
            /\ UNCHANGED <<fileCid, addCalls>>
    /\ UNCHANGED <<file, fileHash, account, calculatedHash, fetchState, timer,
                   responseValue, successfulResults, consensusOutcome, queriesIssued,
                   pinRequests, recorded>>
    /\ UNCHANGED <<ledgerVars, lastCall, displayVars, ownerLevelVars>>

\* axios.post to the pinning service settled
pinResponse(kind) ==
    /\ pc = "pinning"
    /\ IF kind = "pinned"
       THEN /\ fileCid' = IpfsHash(file)
            /\ message' = "File uploaded to IPFS. Adding to blockchain..."
            /\ addCalls' = addCalls + 1
            /\ pc' = "sending"
            /\ UNCHANGED isLoading
       ELSE /\ catchFinally(IF kind = "httpError" THEN "Pinata upload error"
                            ELSE "Upload failed")
            /\ UNCHANGED <<fileCid, addCalls>>
    /\ UNCHANGED <<file, fileHash, account, calculatedHash, fetchState, timer,
                   responseValue, successfulResults, consensusOutcome, queriesIssued,
                   pinRequests, recorded>>
    /\ UNCHANGED <<ledgerVars, lastCall, displayVars, ownerLevelVars>>

\* await contract.add(fileCid, calculatedHash) settled: the wallet refused, the
\* gas estimate reverted, or the transaction was sent
addResponse(kind) ==
    /\ pc = "sending"
    /\ kind = "reverted" => addRevert(fileCid, calculatedHash) # ""
    /\ IF kind = "sent"
       THEN /\ message' = "Transaction sent. Waiting for confirmation..."
            /\ pc' = "mining"
            /\ UNCHANGED isLoading
       ELSE catchFinally(IF kind = "rejected" THEN "Transaction rejected in MetaMask."
                         ELSE "Blockchain transaction failed")
    /\ UNCHANGED <<file, fileHash, account, calculatedHash, fetchState, timer,
                   responseValue, successfulResults, consensusOutcome, fileCid,
                   queriesIssued, pinRequests, addCalls, recorded>>
    /\ UNCHANGED <<ledgerVars, lastCall, displayVars, ownerLevelVars>>

\* await transaction.wait() settled: the ledger applied add with msg.sender = account
transactionMined(blockTimestamp) ==
    /\ pc = "mining"
    /\ add(account, fileCid, calculatedHash, blockTimestamp)
    /\ IF addRevert(fileCid, calculatedHash) = ""
       THEN /\ message' = "Successfully uploaded. CID and Hash recorded on the blockchain!"
            /\ file' = NoFile
            /\ recorded' = TRUE
            /\ isLoading' = FALSE
            /\ pc' = "idle"
       ELSE /\ catchFinally("Blockchain transaction failed")
            /\ UNCHANGED <<file, recorded>>
    /\ UNCHANGED <<fileHash, account, calculatedHash, fetchState, timer, responseValue,
                   successfulResults, consensusOutcome, fileCid, queriesIssued,
                   pinRequests, addCalls>>
    /\ UNCHANGED <<displayVars, ownerLevelVars>>

(* ------------- client/src/components/TraceabilityModal.js -------------- *)
\* the block each logged event was mined in: blocks are numbered from 1, a
\* later event is never in an earlier block, and `starts` are the events that
\* open a new block, taken among the positions `candidates`
BlockNumberings(n, candidates) ==
    {[i \in 1..n |-> 1 + Cardinality({j \in starts : j <= i})] :
        starts \in SUBSET (candidates \cap (2..n))}

\* contract.queryFilter(contract.filters.<eventName>(cid, null, null), 0, "latest"):
\* the matching log entries in log order, each with its args and block number
RECURSIVE queryFilter(_, _, _, _)
queryFilter(eventName, cid, blockOf, i) ==
    IF i > Len(events) THEN <<>>
    ELSE LET rest == queryFilter(eventName, cid, blockOf, i + 1)
         IN  IF events[i].name = eventName /\ events[i].ipfsCid = cid
             THEN <<[args |-> <<events[i].ipfsCid, events[i].owner, events[i].viewer>>,
                     blockNumber |-> blockOf[i]]>> \o rest
             ELSE rest

\* one element of traceSteps
traceStep(event) ==
    LET granterAddr == event.args[2]
        viewerAddr == event.args[3]
        isValidGranter == Len(granterAddr) >= 2 /\ SubSeq(granterAddr, 1, 2) = "0x"
        isValidViewer == Len(viewerAddr) >= 2 /\ SubSeq(viewerAddr, 1, 2) = "0x"
    IN  [granter |-> IF isValidGranter THEN granterAddr ELSE "null",
         viewer |-> IF isValidViewer THEN viewerAddr ELSE "null",
         blockNumber |-> event.blockNumber]

\* Array.prototype.sort((a, b) => a.blockNumber - b.blockNumber): a stable
\* sort, written as the insertion of each element after its equals
RECURSIVE insertByBlock(_, _)
insertByBlock(sorted, step) ==
    IF sorted = <<>> THEN <<step>>
    ELSE IF step.blockNumber - Head(sorted).blockNumber < 0
         THEN <<step>> \o sorted
         ELSE <<Head(sorted)>> \o insertByBlock(Tail(sorted), step)

RECURSIVE sortByBlock(_, _)
sortByBlock(steps, sorted) ==
    IF steps = <<>> THEN sorted
    ELSE sortByBlock(Tail(steps), insertByBlock(sorted, Head(steps)))

\* the query without the id in the filter (filters.ItemAccessGranted())
fetchTrace_unfiltered(cidToTrace, blockOf) ==
    IF cidToTrace = "" THEN <<>>
    ELSE LET found == [k \in 1..Len(events) |->
                          [args |-> <<events[k].ipfsCid, events[k].owner, events[k].viewer>>,
                           blockNumber |-> blockOf[k], name |-> events[k].name]]
             all == SelectSeq(found, LAMBDA e : e.name = "ItemAccessGranted")
         IN  IF Len(all) = 0 THEN <<>>
             ELSE sortByBlock([k \in 1..Len(all) |-> traceStep(all[k])], <<>>)

\* fetchTrace: the value it leaves in the state `trace` (the empty list when it
\* returns early or finds no event)
fetchTrace(cidToTrace, blockOf) ==
    IF cidToTrace = "" THEN <<>>
    ELSE LET found == queryFilter("ItemAccessGranted", cidToTrace, blockOf, 1)
         IN  IF Len(found) = 0 THEN <<>>
             ELSE sortByBlock([k \in 1..Len(found) |-> traceStep(found[k])], <<>>)

(* ------------------ client/src/components/Display.js ------------------- *)
\* the outcome of an async function: the value it resolves with or the
\* message of the error it throws
Resolved(v) == [threw |-> FALSE, value |-> v]
Threw(msg) == [threw |-> TRUE, value |-> msg]

\* the bytes a gateway can answer a fetch with
Buffers == {"A", "B", ""}

\* calculateArrayBufferHash without the check of !buffer || byteLength === 0
calculateArrayBufferHash_noEmptyCheck(buffer, digestWorks) ==
    IF ~digestWorks
    THEN Threw("Hashing failed. Crypto API might not be available or input was invalid.")
    ELSE LET hashArray == digest(buffer)
         IN  Resolved(join([i \in 1..Len(hashArray) |-> byteToHex(hashArray[i])]))

\* digestWorks: whether crypto.subtle.digest resolves (it rejects where the
\* Web Crypto API is not available)
calculateArrayBufferHash(buffer, digestWorks) ==
    IF buffer = NoFile \/ byteLength(buffer) = 0
    THEN Threw("Cannot hash empty or invalid buffer.")
    ELSE IF ~digestWorks
    THEN Threw("Hashing failed. Crypto API might not be available or input was invalid.")
    ELSE LET hashArray == digest(buffer)
         IN  Resolved(join([i \in 1..Len(hashArray) |-> byteToHex(hashArray[i])]))

UpperCase == "ABCDEFGHIJKLMNOPQRSTUVWXYZ"
LowerCase == "abcdefghijklmnopqrstuvwxyz"
lowerChar(ch) ==
    IF \E i \in 1..26 : SubSeq(UpperCase, i, i) = ch
    THEN LET i == CHOOSE j \in 1..26 : SubSeq(UpperCase, j, j) = ch
         IN  SubSeq(LowerCase, i, i)
    ELSE ch
\* String.prototype.toLowerCase
RECURSIVE toLowerCase(_)
toLowerCase(s) ==
    IF Len(s) = 0 THEN ""
    ELSE lowerChar(SubSeq(s, 1, 1)) \o toLowerCase(SubSeq(s, 2, Len(s)))

\* String.prototype.startsWith
startsWith(s, prefix) ==
    Len(s) >= Len(prefix) /\ SubSeq(s, 1, Len(prefix)) = prefix

NoUrl == "null"
gateway == "https://gateway.pinata.cloud/ipfs/"

buildDisplayUrl(cidOrUri) ==
    IF Len(cidOrUri) = 0 THEN NoUrl
    ELSE IF startsWith(cidOrUri, "http://") \/ startsWith(cidOrUri, "https://")
    THEN cidOrUri
    ELSE IF startsWith(cidOrUri, "ipfs://")
    THEN LET cid == SubSeq(cidOrUri, 8, Len(cidOrUri))
         IN  IF Len(cid) > 40 THEN gateway \o cid ELSE NoUrl
    ELSE IF (startsWith(cidOrUri, "Qm") \/ startsWith(cidOrUri, "b")) /\ Len(cidOrUri) > 40
    THEN gateway \o cidOrUri
    ELSE NoUrl

\* ethers.utils.isAddress
isAddress(owner) == owner \in AllAddresses

\* the loop of getdata over the rows the contract returned: the items kept
RECURSIVE processedData(_)
processedData(rows) ==
    IF rows = <<>> THEN <<>>
    ELSE LET row == Head(rows)
             displayUrl == buildDisplayUrl(row.cid)
         IN  IF displayUrl # NoUrl /\ Len(row.hash) > 10 /\ isAddress(row.owner)
             THEN <<[id |-> row.cid, cid |-> row.cid, hash |-> row.hash,
                     owner |-> row.owner, displayUrl |-> displayUrl]>>
                  \o processedData(Tail(rows))
             ELSE processedData(Tail(rows))

isOwner(item) == toLowerCase(item.owner) = toLowerCase(account)
\* processedData.sort(owned first): Array.prototype.sort is stable
ownedFirst(items) ==
    SelectSeq(items, isOwner) \o SelectSeq(items, LAMBDA item : ~isOwner(item))

\* verificationStatus[id] of an id that is not a key of the object
undefined == "undefined"
\* a running verifyHash call: its arguments, the await it is suspended at
\* ("fetch", "body", "hash") and its local fileBuffer once assigned.  The
\* running calls form a bag: two calls with the same arguments at the same
\* await are two calls.
Verification(stage, itemId, imageUrl, expectedHash, fileBuffer) ==
    [stage |-> stage, itemId |-> itemId, imageUrl |-> imageUrl,
     expectedHash |-> expectedHash, fileBuffer |-> fileBuffer]
started(run) == verifications (+) SetToBag({run})
finished(run) == verifications (-) SetToBag({run})
resumed(run, next) == (verifications (-) SetToBag({run})) (+) SetToBag({next})

DisplayInit ==
    /\ displayData = <<>>
    /\ displayMessage = ""
    /\ loading = FALSE
    /\ verificationStatus = [c \in AllCids |-> undefined]
    /\ getdataPc = "none"
    /\ verifications = EmptyBag

\* getdata up to await contract.getAccessibleCIDsAndHashes(): run by the
\* effect on mount and by the Refresh button (disabled while loading)
getdata ==
    /\ ~loading
    /\ getdataPc = "none"
    /\ IF account = NoAccount
       THEN /\ displayMessage' = "Please connect wallet and ensure contract is loaded."
            /\ loading' = FALSE
            /\ displayData' = <<>>
            /\ UNCHANGED <<verificationStatus, getdataPc>>
       ELSE /\ displayData' = <<>>
            /\ displayMessage' = "Fetching accessible content for your account"
            /\ loading' = TRUE
            /\ verificationStatus' = [c \in AllCids |-> undefined]
            /\ getdataPc' = "awaiting"
    /\ UNCHANGED verifications
    /\ UNCHANGED <<ledgerVars, lastCall, clientVars, ownerLevelVars>>

\* the call settles: resolves = FALSE is a rejected call (node unreachable)
getdataSettled(resolves) ==
    /\ getdataPc = "awaiting"
    /\ getdataPc' = "none"
    /\ loading' = FALSE
    /\ IF ~resolves
       THEN /\ displayMessage' = "Error"
            /\ displayData' = <<>>
            /\ UNCHANGED verificationStatus
       ELSE LET result == getAccessibleCIDsAndHashes(account)
                items == ownedFirst(processedData(result))
                initialStatus ==
                    [c \in AllCids |->
                        IF \E k \in 1..Len(items) : items[k].id = c
                        THEN "idle" ELSE undefined]
            IN  IF Len(result) = 0
                THEN /\ displayMessage' = "No content found that you own or that has been shared with you."
                     /\ displayData' = <<>>
                     /\ UNCHANGED verificationStatus
                ELSE IF Len(items) > 0
                THEN /\ displayData' = items
                     /\ verificationStatus' = initialStatus
                     /\ displayMessage' = ""
                ELSE /\ displayData' = <<>>
                     /\ displayMessage' = "No processable content found after filtering."
                     /\ UNCHANGED verificationStatus
    /\ UNCHANGED verifications
    /\ UNCHANGED <<ledgerVars, lastCall, clientVars, ownerLevelVars>>

\* verifyHash sending the item to the contract before it fetches the content
\* (a contract.add of a content id that is on the ledger reverts)
verifyHash_sendsTransaction(k) ==
    /\ k \in 1..Len(displayData)
    /\ ~loading
    /\ verificationStatus[displayData[k].id] \notin {"verifying", "verified"}
    /\ BagCardinality(verifications) < MaxVerifications
    /\ verificationStatus' =
           [verificationStatus EXCEPT ![displayData[k].id] = "verifying"]
    /\ verifications' =
           started(Verification("fetch", displayData[k].id, displayData[k].displayUrl,
                                displayData[k].hash, ""))
    /\ add(account, displayData[k].cid, displayData[k].hash, 1700000000)
    /\ UNCHANGED <<displayData, displayMessage, loading, getdataPc>>
    /\ UNCHANGED <<clientVars, ownerLevelVars>>

\* the Verify button of item k (disabled while loading, verifying or
\* verified): verifyHash(item.displayUrl, item.hash, item.id) up to await fetch
verifyHash(k) ==
    /\ k \in 1..Len(displayData)
    /\ ~loading
    /\ verificationStatus[displayData[k].id] \notin {"verifying", "verified"}
    /\ BagCardinality(verifications) < MaxVerifications
    /\ LET imageUrl == displayData[k].displayUrl
           expectedHash == displayData[k].hash
           itemId == displayData[k].id
       IN  IF imageUrl = NoUrl \/ expectedHash = "" \/ itemId = ""
           THEN /\ verificationStatus' = [verificationStatus EXCEPT ![itemId] = "error"]
                /\ UNCHANGED verifications
           ELSE /\ verificationStatus' = [verificationStatus EXCEPT ![itemId] = "verifying"]
                /\ verifications' =
                       started(Verification("fetch", itemId, imageUrl, expectedHash, ""))
    /\ UNCHANGED <<displayData, displayMessage, loading, getdataPc>>
    /\ UNCHANGED <<ledgerVars, lastCall, clientVars, ownerLevelVars>>

\* the catch block replacing the status object by a fresh one (every listed
\* item 'idle', this item 'error') instead of the functional update of prev
fetchSettled_replacesStatuses(run, kind) ==
    /\ BagIn(run, verifications)
    /\ run.stage = "fetch"
    /\ IF kind = "ok"
       THEN /\ verifications' = resumed(run, [run EXCEPT !.stage = "body"])
            /\ UNCHANGED verificationStatus
       ELSE /\ verificationStatus' =
                   [c \in AllCids |->
                       IF c = run.itemId THEN "error"
                       ELSE IF \E k \in 1..Len(displayData) : displayData[k].id = c
                       THEN "idle" ELSE undefined]
            /\ verifications' = finished(run)
    /\ UNCHANGED <<displayData, displayMessage, loading, getdataPc>>
    /\ UNCHANGED <<ledgerVars, lastCall, clientVars, ownerLevelVars>>

\* await fetch(imageUrl) settles: rejected (network error), or resolved with
\* response.ok false or true
fetchSettled(run, kind) ==
    /\ BagIn(run, verifications)
    /\ run.stage = "fetch"
    /\ IF kind = "ok"
       THEN /\ verifications' = resumed(run, [run EXCEPT !.stage = "body"])
            /\ UNCHANGED verificationStatus
       ELSE /\ verificationStatus' = [verificationStatus EXCEPT ![run.itemId] = "error"]
            /\ verifications' = finished(run)
    /\ UNCHANGED <<displayData, displayMessage, loading, getdataPc>>
    /\ UNCHANGED <<ledgerVars, lastCall, clientVars, ownerLevelVars>>

\* neither verifyHash nor calculateArrayBufferHash checking byteLength === 0:
\* the digest of the empty payload is compared like any other
bodySettled_emptyIsHashed(run, arrives, fileBuffer) ==
    /\ BagIn(run, verifications)
    /\ run.stage = "body"
    /\ IF ~arrives
       THEN /\ verificationStatus' = [verificationStatus EXCEPT ![run.itemId] = "error"]
            /\ verifications' = finished(run)
       ELSE IF byteLength(fileBuffer) = 0
       THEN /\ verificationStatus' =
                   [verificationStatus EXCEPT ![run.itemId] =
                       IF toLowerCase(calculateArrayBufferHash_noEmptyCheck(fileBuffer, TRUE).value)
                              = toLowerCase(run.expectedHash)
                       THEN "verified" ELSE "mismatch"]
            /\ verifications' = finished(run)
       ELSE /\ verifications' =
                   resumed(run, [run EXCEPT !.stage = "hash", !.fileBuffer = fileBuffer])
            /\ UNCHANGED verificationStatus
    /\ UNCHANGED <<displayData, displayMessage, loading, getdataPc>>
    /\ UNCHANGED <<ledgerVars, lastCall, clientVars, ownerLevelVars>>

\* await response.arrayBuffer() settles: rejected (arrives = FALSE) or
\* resolved with the bytes of the body
bodySettled(run, arrives, fileBuffer) ==
    /\ BagIn(run, verifications)
    /\ run.stage = "body"
    /\ IF ~arrives \/ byteLength(fileBuffer) = 0
       THEN /\ verificationStatus' = [verificationStatus EXCEPT ![run.itemId] = "error"]
            /\ verifications' = finished(run)
       ELSE /\ verifications' =
                   resumed(run, [run EXCEPT !.stage = "hash", !.fileBuffer = fileBuffer])
            /\ UNCHANGED verificationStatus
    /\ UNCHANGED <<displayData, displayMessage, loading, getdataPc>>
    /\ UNCHANGED <<ledgerVars, lastCall, clientVars, ownerLevelVars>>

\* the comparison without toLowerCase on either side
hashSettled_caseSensitive(run, digestWorks) ==
    /\ BagIn(run, verifications)
    /\ run.stage = "hash"
    /\ LET calculated == calculateArrayBufferHash(run.fileBuffer, digestWorks)
       IN  verificationStatus' =
               [verificationStatus EXCEPT ![run.itemId] =
                   IF calculated.threw THEN "error"
                   ELSE IF calculated.value = run.expectedHash THEN "verified"
                   ELSE "mismatch"]
    /\ verifications' = finished(run)
    /\ UNCHANGED <<displayData, displayMessage, loading, getdataPc>>
    /\ UNCHANGED <<ledgerVars, lastCall, clientVars, ownerLevelVars>>

\* await calculateArrayBufferHash(fileBuffer) settles, and the comparison
hashSettled(run, digestWorks) ==
    /\ BagIn(run, verifications)
    /\ run.stage = "hash"
    /\ LET calculated == calculateArrayBufferHash(run.fileBuffer, digestWorks)
           expectedHash == run.expectedHash
           itemId == run.itemId
       IN  verificationStatus' =
               [verificationStatus EXCEPT ![itemId] =
                   IF calculated.threw THEN "error"
                   ELSE IF toLowerCase(calculated.value) = toLowerCase(expectedHash)
                   THEN "verified"
                   ELSE "mismatch"]
    /\ verifications' = finished(run)
    /\ UNCHANGED <<displayData, displayMessage, loading, getdataPc>>
    /\ UNCHANGED <<ledgerVars, lastCall, clientVars, ownerLevelVars>>

(* --------- unnamed/part_003: the owner-level Upload contract ----------- *)
\* an element of imageData[owner]
OwnerLevelRecord(cid, hash, ts) == [ipfsCid |-> cid, imageHash |-> hash, timestamp |-> ts]
\* an element of accessList[owner]
Access(user, access) == [user |-> user, access |-> access]

OwnerLevelImageAdded(owner, cid, hash, ts) ==
    [name |-> "ImageAdded", owner |-> owner, ipfsCid |-> cid, imageHash |-> hash,
     timestamp |-> ts, viewer |-> ZeroAddress, granted |-> FALSE]
AccessChanged(owner, viewer, granted) ==
    [name |-> "AccessChanged", owner |-> owner, ipfsCid |-> "", imageHash |-> "",
     timestamp |-> 0, viewer |-> viewer, granted |-> granted]

OwnerLevelInit ==
    /\ imageData = [a \in Addresses |-> <<>>]
    /\ ownership = [a \in Addresses |-> [b \in Addresses |-> FALSE]]
    /\ accessList = [a \in Addresses |-> <<>>]
    /\ userInAccessList = [a \in Addresses |-> [b \in Addresses |-> FALSE]]
    /\ ownerLevelEvents = <<>>
    /\ ownerLevelCall = [op |-> "none", sender |-> ZeroAddress, arg |-> ZeroAddress, err |-> ""]

\* the first failing require of add(_user, _ipfsCid, _imageHash), "" when all pass
ownerLevelAddRevert(_ipfsCid, _imageHash) ==
    IF ~(Len(_ipfsCid) > 0) THEN "Upload: IPFS CID cannot be empty"
    ELSE IF ~(Len(_imageHash) > 0) THEN "Upload: Image hash cannot be empty"
    ELSE ""

\* one add transaction of the owner-level contract
ownerLevelAdd(sender, _user, _ipfsCid, _imageHash, blockTimestamp) ==
    LET err == ownerLevelAddRevert(_ipfsCid, _imageHash)
    IN  /\ ownerLevelCall' = [op |-> "add", sender |-> sender, arg |-> _user, err |-> err]
        /\ IF err # ""
           THEN UNCHANGED <<imageData, ownerLevelEvents>>
           ELSE /\ Len(ownerLevelEvents) < MaxOwnerLevelEvents
                /\ imageData' =
                       [imageData EXCEPT ![_user] =
                           Append(@, OwnerLevelRecord(_ipfsCid, _imageHash, blockTimestamp))]
                /\ ownerLevelEvents' =
                       Append(ownerLevelEvents,
                              OwnerLevelImageAdded(_user, _ipfsCid, _imageHash, blockTimestamp))
        /\ UNCHANGED <<ownership, accessList, userInAccessList>>

allowRevert(sender, _viewer) ==
    IF ~(_viewer # sender) THEN "Upload: Cannot grant access to yourself"
    ELSE IF ~(~ownership[sender][_viewer]) THEN "Upload: Access already granted"
    ELSE ""

\* the loop over accessList[msg.sender] that sets the entry of _viewer
setAccess(list, _viewer, access) ==
    LET found == {i \in 1..Len(list) : list[i].user = _viewer}
    IN  IF found = {} THEN list
        ELSE LET first == CHOOSE i \in found : \A j \in found : i <= j
             IN  [list EXCEPT ![first].access = access]

allow(sender, _viewer) ==
    LET err == allowRevert(sender, _viewer)
    IN  /\ ownerLevelCall' = [op |-> "allow", sender |-> sender, arg |-> _viewer, err |-> err]
        /\ IF err # ""
           THEN UNCHANGED <<ownership, accessList, userInAccessList, ownerLevelEvents>>
           ELSE /\ Len(ownerLevelEvents) < MaxOwnerLevelEvents
                /\ ownership' = [ownership EXCEPT ![sender][_viewer] = TRUE]
                /\ IF userInAccessList[sender][_viewer]
                   THEN /\ accessList' =
                               [accessList EXCEPT ![sender] = setAccess(@, _viewer, TRUE)]
                        /\ UNCHANGED userInAccessList
                   ELSE /\ accessList' =
                               [accessList EXCEPT ![sender] = Append(@, Access(_viewer, TRUE))]
                        /\ userInAccessList' =
                               [userInAccessList EXCEPT ![sender][_viewer] = TRUE]
                /\ ownerLevelEvents' =
                       Append(ownerLevelEvents, AccessChanged(sender, _viewer, TRUE))
        /\ UNCHANGED imageData

disallowRevert(sender, _viewer) ==
    IF ~(_viewer # sender) THEN "Upload: Cannot revoke access from yourself"
    ELSE IF ~ownership[sender][_viewer] THEN "Upload: Access not currently granted"
    ELSE IF ~userInAccessList[sender][_viewer]
         THEN "Upload: Inconsistent state - user not in access list"
    ELSE ""

disallow_keepsOwnership(sender, _viewer) ==
    LET err == disallowRevert(sender, _viewer)
    IN  /\ ownerLevelCall' = [op |-> "disallow", sender |-> sender, arg |-> _viewer, err |-> err]
        /\ IF err # ""
           THEN UNCHANGED <<ownership, accessList, ownerLevelEvents>>
           ELSE /\ Len(ownerLevelEvents) < MaxOwnerLevelEvents
                /\ UNCHANGED ownership
                /\ accessList' =
                       [accessList EXCEPT ![sender] = setAccess(@, _viewer, FALSE)]
                /\ ownerLevelEvents' =
                       Append(ownerLevelEvents, AccessChanged(sender, _viewer, FALSE))
        /\ UNCHANGED <<imageData, userInAccessList>>
disallow(sender, _viewer) ==
    LET err == disallowRevert(sender, _viewer)
    IN  /\ ownerLevelCall' = [op |-> "disallow", sender |-> sender, arg |-> _viewer, err |-> err]
        /\ IF err # ""
           THEN UNCHANGED <<ownership, accessList, ownerLevelEvents>>
           ELSE /\ Len(ownerLevelEvents) < MaxOwnerLevelEvents
                /\ ownership' = [ownership EXCEPT ![sender][_viewer] = FALSE]
                /\ accessList' =
                       [accessList EXCEPT ![sender] = setAccess(@, _viewer, FALSE)]
                /\ ownerLevelEvents' =
                       Append(ownerLevelEvents, AccessChanged(sender, _viewer, FALSE))
        /\ UNCHANGED <<imageData, userInAccessList>>

\* display(_user) called by sender: the revert reason, or the two parallel arrays
ownerLevelDisplay(sender, _user) ==
    IF ~(_user = sender \/ ownership[_user][sender])
    THEN Threw("Upload: You don't have access")
    ELSE Resolved([cids |-> [i \in 1..Len(imageData[_user]) |-> imageData[_user][i].ipfsCid],
                   hashes |-> [i \in 1..Len(imageData[_user]) |-> imageData[_user][i].imageHash]])

checkAccess(_owner, _viewer) ==
    _owner = _viewer \/ ownership[_owner][_viewer]

\* shareAccess() called by sender
shareAccess(sender) == accessList[sender]

(* ------------------- LedgerSpec: arbitrary transactions ---------------- *)
Init ==
    /\ OwnerLevelInit
    /\ LedgerInit
    /\ ClientInit
    /\ DisplayInit
    /\ account = NoAccount

\* A reverted transaction changes nothing but lastCall, whoever sent it and
\* whatever its arguments: each call* action takes the successful calls one by
\* one and the reverting calls one revert reason at a time.
reverted(op, err) ==
    /\ lastCall' = [op |-> op, err |-> err]
    /\ UNCHANGED ledgerVars

AddErrors ==
    {"Upload: CID cannot be empty", "Upload: Hash cannot be empty",
     "Upload: CID already exists"}

GrantErrors ==
    {"Upload: Item does not exist", "Upload: Invalid viewer address",
     "Upload: Only owner can grant access", "Upload: Cannot grant access to yourself",
     "Upload: Access already granted"}

RevokeErrors ==
    {"Upload: Item does not exist", "Upload: Only owner can revoke access",
     "Upload: Access not currently granted",
     "Upload: CID not found in viewer's shared list index",
     "Upload: Index out of bounds"}

callAdd ==
    /\ \/ \E s \in Addresses, c \in CallerCids, h \in AllHashes, ts \in Timestamps :
              addRevert(c, h) = "" /\ add(s, c, h, ts)
       \/ \E err \in AddErrors :
              /\ TRUE = (\E c \in CallerCids, h \in AllHashes : addRevert(c, h) = err)
              /\ reverted("add", err)
    /\ UNCHANGED <<clientVars, displayVars, ownerLevelVars>>

callGrantItemAccess ==
    /\ \/ \E s \in Addresses, c \in CallerCids, v \in AllAddresses :
              grantRevert(s, c, v) = "" /\ grantItemAccess(s, c, v)
       \/ \E err \in GrantErrors :
              /\ TRUE = (\E s \in Addresses, c \in CallerCids, v \in AllAddresses :
                             grantRevert(s, c, v) = err)
              /\ reverted("grantItemAccess", err)
    /\ UNCHANGED <<clientVars, displayVars, ownerLevelVars>>

callRevokeItemAccess ==
    /\ \/ \E s \in Addresses, c \in CallerCids, v \in AllAddresses :
              revokeRevert(s, c, v) = "" /\ revokeItemAccess(s, c, v)
       \/ \E err \in RevokeErrors :
              /\ TRUE = (\E s \in Addresses, c \in CallerCids, v \in AllAddresses :
                             revokeRevert(s, c, v) = err)
              /\ reverted("revokeItemAccess", err)
    /\ UNCHANGED <<clientVars, displayVars, ownerLevelVars>>

Next == callAdd \/ callGrantItemAccess \/ callRevokeItemAccess

LedgerSpec == Init /\ [][Next]_vars

Spec == LedgerSpec

(* ---------- UploadSpec: one client submitting, others adding ----------- *)
UploadInit ==
    /\ OwnerLevelInit
    /\ LedgerInit
    /\ ClientInit
    /\ DisplayInit
    /\ account \in {"0xA", NoAccount}

\* another identity adds a record while the client runs, for content the
\* client can submit as well
otherAdd ==
    /\ \E s \in Addresses \ {account}, c \in PinnedCids, h \in Hashes, ts \in Timestamps :
           add(s, c, h, ts)
    /\ UNCHANGED <<clientVars, displayVars, ownerLevelVars>>

UploadNext ==
    \/ \E selected \in Files \cup {NoFile}, typeAccepted \in BOOLEAN :
           retrieveFile(selected, typeAccepted)
    \/ handleSubmit
    \/ hashResolved
    \/ \E n \in Nodes, ok \in BOOLEAN : responseHeaders(n, ok)
    \/ \E n \in Nodes : networkError(n)
    \/ \E n \in Nodes : timeout(n)
    \/ \E n \in Nodes, body \in NodeBodies, parses \in BOOLEAN : bodyArrives(n, body, parses)
    \/ afterAllSettled
    \/ \E kind \in {"pinned", "noIpfsHash", "httpError", "networkError"} : pinResponse(kind)
    \/ \E kind \in {"sent", "rejected", "reverted"} : addResponse(kind)
    \/ \E ts \in Timestamps : transactionMined(ts)
    \/ otherAdd

UploadSpec == UploadInit /\ [][UploadNext]_vars

\* the timers and the continuation of handleSubmit are run by the event loop;
\* what a detector node, the pinning service or the chain does is not
UploadFairSpec ==
    /\ UploadSpec
    /\ \A n \in Nodes : WF_vars(timeout(n))
    /\ WF_vars(afterAllSettled)

\* as UploadFairSpec, with the services answering as well: the hash is
\* computed, the pinning service answers the pin request, the wallet and the
\* node answer contract.add, and the chain mines the transaction
UploadLiveSpec ==
    /\ UploadFairSpec
    /\ WF_vars(hashResolved)
    /\ WF_vars(\E kind \in {"pinned", "noIpfsHash", "httpError", "networkError"} :
                   pinResponse(kind))
    /\ WF_vars(\E kind \in {"sent", "rejected", "reverted"} : addResponse(kind))
    /\ WF_vars(\E ts \in Timestamps : transactionMined(ts))

(* ------------- ConsensusSpec: determineConsensus on any list ----------- *)
\* results determineConsensus can be called with
VoteInputs == {Vote(FALSE, <<9, 10>>), Vote(FALSE, <<4, 5>>), Vote(FALSE, <<7, 10>>),
               Vote(TRUE, <<3, 5>>), Vote(TRUE, <<9, 10>>),
               Vote(FALSE, <<3, 2>>), Vote(TRUE, <<-1, 10>>), Unclear(<<1, 2>>)}

ResultLists == UNION {[1..k -> VoteInputs] : k \in 0..MaxVotes}

ConsensusInit ==
    /\ OwnerLevelInit
    /\ LedgerInit
    /\ DisplayInit
    /\ file = NoFile /\ isLoading = FALSE /\ message = "" /\ fileHash = ""
    /\ account = NoAccount /\ pc = "decide" /\ calculatedHash = ""
    /\ fetchState = [n \in Nodes |-> "none"]
    /\ timer = [n \in Nodes |-> "none"]
    /\ responseValue = [n \in Nodes |-> NoValue]
    /\ successfulResults \in ResultLists
    /\ consensusOutcome = NoOutcome
    /\ fileCid = ""
    /\ queriesIssued = [n \in Nodes |-> 0]
    /\ pinRequests = 0 /\ addCalls = 0 /\ recorded = FALSE

decide ==
    /\ pc = "decide"
    /\ consensusOutcome' = determineConsensus(successfulResults)
    /\ pc' = "decided"
    /\ UNCHANGED <<file, isLoading, message, fileHash, account, calculatedHash,
                   fetchState, timer, responseValue, successfulResults, fileCid,
                   queriesIssued, pinRequests, addCalls, recorded>>
    /\ UNCHANGED <<ledgerVars, lastCall, displayVars, ownerLevelVars>>

ConsensusNext == decide

ConsensusSpec == ConsensusInit /\ [][ConsensusNext]_vars

(* -------- DisplaySpec: one user's display, records being added ---------- *)
\* the records the connected account creates: content "A" with its digest in
\* lower case, in upper case, or with a string of ten characters, and the
\* empty content with the digest FileUpload.js computes for it
DisplayRecords == {<<cidA, "559aead08264">>, <<cidA, "559AEAD08264">>,
                   <<cidA, "559aead082">>, <<cidE, calculateFileHash("E")>>}

DisplaySpecInit ==
    /\ OwnerLevelInit
    /\ LedgerInit
    /\ ClientInit
    /\ DisplayInit
    /\ account = "0xA"

\* the connected account adds a record (through this client or another one)
accountAdd ==
    /\ \E r \in DisplayRecords, ts \in Timestamps : add(account, r[1], r[2], ts)
    /\ UNCHANGED <<clientVars, displayVars, ownerLevelVars>>

DisplayNext ==
    \/ accountAdd
    \/ getdata
    \/ \E resolves \in BOOLEAN : getdataSettled(resolves)
    \/ \E k \in 1..Cardinality(AllCids) : verifyHash(k)
    \/ \E run \in BagToSet(verifications), kind \in {"networkError", "notOk", "ok"} :
           fetchSettled(run, kind)
    \/ \E run \in BagToSet(verifications), arrives \in BOOLEAN, fileBuffer \in Buffers :
           bodySettled(run, arrives, fileBuffer)
    \/ \E run \in BagToSet(verifications), digestWorks \in BOOLEAN :
           hashSettled(run, digestWorks)

DisplaySpec == DisplaySpecInit /\ [][DisplayNext]_vars

(* ------- OwnerLevelSpec: transactions of the owner-level contract ------- *)
OwnerLevelSpecInit ==
    /\ OwnerLevelInit
    /\ LedgerInit
    /\ ClientInit
    /\ DisplayInit
    /\ account = NoAccount

otherVars == <<ledgerVars, lastCall, clientVars, displayVars>>

\* the accounts that grant and revoke here; the third only adds and displays
Granters == {"0xA", "0xB"}

callOwnerLevelAdd ==
    \E sender \in Addresses, _user \in Addresses, cid \in {cidA, ""}, hash \in AllHashes,
       ts \in Timestamps :
        /\ ownerLevelAdd(sender, _user, cid, hash, ts)
        /\ UNCHANGED otherVars

callAllow ==
    \E sender \in Granters, _viewer \in Addresses :
        /\ allow(sender, _viewer)
        /\ UNCHANGED otherVars

callDisallow ==
    \E sender \in Granters, _viewer \in Addresses :
        /\ disallow(sender, _viewer)
        /\ UNCHANGED otherVars

\* a display(_user) call: a view, only its outcome is observed
callDisplay ==
    \E sender \in Addresses, _user \in Addresses :
        LET result == ownerLevelDisplay(sender, _user)
        IN  /\ ownerLevelCall' = [op |-> "display", sender |-> sender, arg |-> _user,
                                  err |-> IF result.threw THEN result.value ELSE ""]
            /\ UNCHANGED <<imageData, ownership, accessList, userInAccessList,
                           ownerLevelEvents>>
            /\ UNCHANGED otherVars

OwnerLevelNext == callOwnerLevelAdd \/ callAllow \/ callDisallow \/ callDisplay

OwnerLevelSpec == OwnerLevelSpecInit /\ [][OwnerLevelNext]_vars

TypeOK ==
    /\ cidExists \in [AllCids -> BOOLEAN]
    /\ accessEventCount <= MaxAccessEvents
    /\ pc \in {"idle", "hashing", "awaitNodes", "pinning", "sending", "mining",
               "decide", "decided"}

(* =============================== claims ================================ *)
\* a vote that counts: boolean verdict, numeric confidence within [0, 1]
validVote(v) ==
    /\ v.typeof_is_deepfake = "boolean"
    /\ v.typeof_confidence = "number"
    /\ v.confidence[1] >= 0
    /\ v.confidence[1] <= v.confidence[2]

\* positions of the counting votes for "real" and for "deepfake" in a result list
realIdx(results) ==
    {i \in 1..Len(results) : validVote(results[i]) /\ ~results[i].is_deepfake}
fakeIdx(results) ==
    {i \in 1..Len(results) : validVote(results[i]) /\ results[i].is_deepfake}

\* the decision the rule prescribes for r real and f fake counting votes
ruleDecision(r, f) ==
    IF 2 * r > r + f THEN "real"
    ELSE IF 2 * f > r + f THEN "deepfake"
    ELSE "inconclusive"

\* nodes whose query delivered a counting vote
votingNodes == {n \in Nodes : fetchState[n] = "fulfilled" /\ validVote(responseValue[n])}
\* nodes whose query delivered a body of the expected shape
shapedNodes ==
    {n \in Nodes : /\ fetchState[n] = "fulfilled"
                   /\ responseValue[n].typeof_is_deepfake = "boolean"
                   /\ responseValue[n].typeof_confidence = "number"}

decisionTaken == consensusOutcome # NoOutcome

\* C1: consensus gate.  A pin request, a contract.add call, a submission waiting
\* for either, or a record made by the submission exist only when the decision
\* of that submission is "real"; with "deepfake" or "inconclusive" there is none.
C1_ConsensusGate ==
    (pinRequests > 0 \/ addCalls > 0 \/ recorded \/ pc \in {"pinning", "sending", "mining"})
        => consensusOutcome.consensus = "real"

C1_Witness ==
    /\ consensusOutcome.consensus = "deepfake"
    /\ pc = "idle" /\ ~isLoading
    /\ pinRequests = 0 /\ addCalls = 0

\* C2: decision rule.  With r real and f fake counting votes, r + f > 0, the
\* result is "real" if r/(r+f) > 1/2, "deepfake" if f/(r+f) > 1/2 and
\* "inconclusive" otherwise; a tie is "inconclusive".
C2_DecisionRule ==
    pc = "decided" =>
        LET r == Cardinality(realIdx(successfulResults))
            f == Cardinality(fakeIdx(successfulResults))
        IN  r + f > 0 => consensusOutcome.consensus = ruleDecision(r, f)

C2_Witness ==
    /\ pc = "decided"
    /\ Cardinality(realIdx(successfulResults)) = 1
    /\ Cardinality(fakeIdx(successfulResults)) = 1
    /\ consensusOutcome.consensus = "inconclusive"

\* C3: no counting vote.  When no node delivered a counting vote (failure,
\* timeout, malformed body, confidence outside [0, 1]) the decision is
\* "inconclusive" and the submission ends without pin and without add.
C3_NoValidVotes ==
    (decisionTaken /\ votingNodes = {}) =>
        /\ consensusOutcome.consensus = "inconclusive"
        /\ pc = "idle"
        /\ pinRequests = 0 /\ addCalls = 0 /\ ~recorded

C3_Witness ==
    /\ decisionTaken /\ votingNodes = {}
    /\ fetchState[1] = "rejected" /\ timer[1] = "fired"
    /\ fetchState[2] = "fulfilled" /\ responseValue[2] = Malformed
    /\ fetchState[3] = "fulfilled" /\ responseValue[3] = Vote(FALSE, <<3, 2>>)
    /\ consensusOutcome.consensus = "inconclusive"

\* C4: wait-for-all join.  A submission issues exactly one query per node, and
\* its decision exists only when every one of those queries has settled.
C4_WaitForAll ==
    /\ \A n \in Nodes : queriesIssued[n] <= 1
    /\ pc \in {"awaitNodes", "pinning", "sending", "mining"} =>
           \A n \in Nodes : queriesIssued[n] = 1
    /\ decisionTaken =>
           \A n \in Nodes : queriesIssued[n] = 1 /\ fetchState[n] \in {"fulfilled", "rejected"}

C4_Witness ==
    /\ decisionTaken
    /\ fetchState[1] = "rejected" /\ timer[1] = "cleared"
    /\ fetchState[2] = "fulfilled"
    /\ fetchState[3] = "rejected" /\ timer[3] = "fired"

\* the k-th node, in url order, of a set of nodes
kth(S, k) == CHOOSE n \in S : Cardinality({m \in S : m < n}) = k - 1

\* C5: failure isolation.  The tally is taken over exactly the well-formed
\* answers of the nodes that answered, in node order, whatever the other nodes
\* did; the decision follows the counting votes only, so one counting "real"
\* vote and no other counting vote gives "real" with votes 1/1.
C5_FailureIsolation ==
    decisionTaken =>
        /\ Len(successfulResults) = Cardinality(shapedNodes)
        /\ \A k \in 1..Len(successfulResults) :
               successfulResults[k] = responseValue[kth(shapedNodes, k)]
        /\ LET r == Cardinality({n \in votingNodes : ~responseValue[n].is_deepfake})
               f == Cardinality({n \in votingNodes : responseValue[n].is_deepfake})
           IN  /\ r + f > 0 => consensusOutcome.consensus = ruleDecision(r, f)
               /\ (r = 1 /\ f = 0) => consensusOutcome.votes = "1/1"

C5_Witness ==
    /\ decisionTaken
    /\ fetchState[1] = "rejected" /\ timer[1] = "fired"
    /\ fetchState[2] = "fulfilled" /\ responseValue[2] = Vote(FALSE, <<7, 10>>)
    /\ fetchState[3] = "rejected" /\ timer[3] = "fired"
    /\ consensusOutcome.consensus = "real" /\ consensusOutcome.votes = "1/1"
    /\ pc = "pinning"

\* C6: every query settles by its timeout.  With the timers and the
\* continuation of handleSubmit scheduled fairly, a submission that waits for
\* its detector queries always gets past the join, whatever the nodes do.
C6_JoinTerminates == (pc = "awaitNodes") ~> (pc # "awaitNodes")

RECURSIVE sumConfidence(_, _)
sumConfidence(results, S) ==
    IF S = {} THEN Zero
    ELSE LET i == CHOOSE x \in S : TRUE
         IN  RatAdd(results[i].confidence, sumConfidence(results, S \ {i}))

\* arithmetic mean of the confidences of the counting votes on the winning side
winningMean(results, consensus) ==
    LET S == IF consensus = "real" THEN realIdx(results) ELSE fakeIdx(results)
    IN  RatDivInt(sumConfidence(results, S), Cardinality(S))

\* C7 as stated: the confidence figure of a "real" or "deepfake" decision
\* equals the mean confidence of the winning side (0.85 in the example).
C7_ConfidenceIsMean ==
    (pc = "decided" /\ consensusOutcome.consensus \in {"real", "deepfake"}) =>
        RatEq(consensusOutcome.confidence,
              winningMean(successfulResults, consensusOutcome.consensus))

\* C7 amended: the confidence figure of a "real" or "deepfake" decision is the
\* mean confidence of the winning side only, expressed as a percentage
\* (multiplied by 100: 85 in the example).
C7_ConfidenceIsMeanPercent ==
    (pc = "decided" /\ consensusOutcome.consensus \in {"real", "deepfake"}) =>
        RatEq(consensusOutcome.confidence,
              RatMulInt(winningMean(successfulResults, consensusOutcome.consensus), 100))

C7_Witness ==
    /\ pc = "decided"
    /\ successfulResults = <<Vote(FALSE, <<9, 10>>), Vote(FALSE, <<4, 5>>), Vote(TRUE, <<3, 5>>)>>
    /\ consensusOutcome.consensus = "real"
    /\ consensusOutcome.votes = "2/3"
    /\ RatEq(consensusOutcome.confidence, <<85, 1>>)

lastEvent == events[Len(events)]

\* what an add that creates the record of content id c changes, and nothing else
createsRecord(c) ==
    /\ ~cidExists[c] /\ cidExists' = [cidExists EXCEPT ![c] = TRUE]
    /\ cidToRecord' = [cidToRecord EXCEPT ![c] = cidToRecord'[c]]
    /\ cidToRecord'[c].ipfsCid = c
    /\ userOwnedCIDs' = [userOwnedCIDs EXCEPT ![cidToRecord'[c].owner] = Append(@, c)]
    /\ events' = Append(events, lastEvent')
    /\ lastEvent'.name = "ImageAdded" /\ lastEvent'.ipfsCid = c
    /\ UNCHANGED <<itemAccess, sharedWithUserCIDs, sharedWithUserIndex>>

\* C8: duplicate add.  An add transaction never succeeds on a content id that
\* already exists, whoever sends it: every add either reverts and changes no
\* record, index, grant or event, or creates the record of an id that did not
\* exist; the records that exist are left as they are.
C8_DuplicateAddFails ==
    [][lastCall'.op = "add" =>
          /\ lastCall'.err # "" => UNCHANGED ledgerVars
          /\ lastCall'.err = "" => \E c \in AllCids : createsRecord(c)
          /\ \A c \in AllCids : cidExists[c] =>
                 cidExists'[c] /\ cidToRecord'[c] = cidToRecord[c]]_vars

C8_Witness ==
    /\ lastCall.op = "add" /\ lastCall.err = "Upload: CID already exists"
    /\ \E c \in CIDs : cidExists[c]

\* C9: empty input.  An add transaction with an empty content id or an empty
\* fingerprint reverts, changes no ledger state and emits no event: an add that
\* changes anything stores and emits a non-empty id with a non-empty fingerprint.
C9_EmptyInputFails ==
    [][lastCall'.op = "add" =>
          /\ lastCall'.err \in {"Upload: CID cannot be empty", "Upload: Hash cannot be empty"}
                 => UNCHANGED ledgerVars
          /\ ~(UNCHANGED ledgerVars) =>
                 /\ lastCall'.err = ""
                 /\ Len(events') = Len(events) + 1
                 /\ lastEvent'.name = "ImageAdded"
                 /\ lastEvent'.ipfsCid # "" /\ lastEvent'.imageHash # ""
                 /\ cidToRecord'[lastEvent'.ipfsCid].imageHash = lastEvent'.imageHash
          /\ ~cidExists'[""]
          /\ \A c \in AllCids : cidExists'[c] => cidToRecord'[c].imageHash # ""]_vars

C9_Witness ==
    /\ lastCall.op = "add"
    /\ lastCall.err \in {"Upload: CID cannot be empty", "Upload: Hash cannot be empty"}
    /\ events # <<>>

\* C10: add then read.  For every successful add (id, fingerprint) by caller c,
\* getAccessibleCIDsAndHashes of c has exactly one row with that id, and the row
\* carries that fingerprint and owner c, in every later state.
C10_AddThenGetAccessible ==
    \A i \in 1..Len(events) :
        events[i].name = "ImageAdded" =>
            LET rows == getAccessibleCIDsAndHashes(events[i].owner)
                hits == {j \in 1..Len(rows) : rows[j].cid = events[i].ipfsCid}
            IN  /\ Cardinality(hits) = 1
                /\ \A j \in hits : /\ rows[j].hash = events[i].imageHash
                                    /\ rows[j].owner = events[i].owner

C10_Witness ==
    \E a \in Addresses :
        /\ userOwnedCIDs[a] # <<>>
        /\ sharedWithUserCIDs[a] # <<>>
        /\ Len(getAccessibleCIDsAndHashes(a)) = 2
        /\ lastCall.op = "revokeItemAccess" /\ lastCall.err = ""
(* --------------------- C11..C20: access control ------------------------ *)
\* the record of content id c as its ImageAdded event announced it
announced(c) ==
    {ImageRecord(e.ipfsCid, e.imageHash, e.owner, e.timestamp) :
        e \in {events[i] : i \in {j \in 1..Len(events) :
                    events[j].name = "ImageAdded" /\ events[j].ipfsCid = c}}}

\* C11: record immutability.  Whatever transaction is applied (add,
\* grantItemAccess or revokeItemAccess, successful or reverted, by any caller),
\* a record that exists keeps existing with the same id, fingerprint, owner and
\* timestamp, which are those it was created with.
C11_RecordImmutable ==
    [][\A c \in AllCids :
          /\ cidExists[c] => cidExists'[c] /\ cidToRecord'[c] = cidToRecord[c]
          /\ cidExists'[c] => announced(c)' = {cidToRecord'[c]}]_vars

\* a record has lived through a grant and a revoke
C11_Witness ==
    /\ lastCall = [op |-> "revokeItemAccess", err |-> ""]
    /\ cidExists[lastEvent.ipfsCid]
    /\ \E i \in 1..Len(events) : events[i].name = "ItemAccessGranted"

\* C12: grant toggle.  Right after a successful grantItemAccess(id, v), which
\* only the owner can send, checkItemAccess(id, v) is true; right after a
\* successful revokeItemAccess(id, v) it is false; and the owner's next grant
\* (resp. revoke) of the pair is not rejected, so the cycle can repeat.
C12_GrantToggle ==
    /\ lastCall = [op |-> "grantItemAccess", err |-> ""] =>
          /\ lastEvent.name = "ItemAccessGranted"
          /\ lastEvent.owner = cidToRecord[lastEvent.ipfsCid].owner
          /\ checkItemAccess(lastEvent.ipfsCid, lastEvent.viewer)
          /\ revokeRevert(lastEvent.owner, lastEvent.ipfsCid, lastEvent.viewer) = ""
    /\ lastCall = [op |-> "revokeItemAccess", err |-> ""] =>
          /\ lastEvent.name = "ItemAccessRevoked"
          /\ lastEvent.owner = cidToRecord[lastEvent.ipfsCid].owner
          /\ ~checkItemAccess(lastEvent.ipfsCid, lastEvent.viewer)
          /\ grantRevert(lastEvent.owner, lastEvent.ipfsCid, lastEvent.viewer) = ""

\* grant, revoke and grant again of the same pair
C12_Witness ==
    /\ lastCall = [op |-> "grantItemAccess", err |-> ""]
    /\ Len(events) >= 4
    /\ events[Len(events) - 2].name = "ItemAccessGranted"
    /\ events[Len(events) - 1].name = "ItemAccessRevoked"
    /\ \A k \in {1, 2} :
          /\ events[Len(events) - k].ipfsCid = lastEvent.ipfsCid
          /\ events[Len(events) - k].viewer = lastEvent.viewer

ownerOf(c) == cidToRecord[c].owner

\* C13: delegated sharing.  A caller who does not own an item but holds an
\* active grant on it can grant the item to a third address: the call passes
\* every require of grantItemAccess.
C13_DelegatedSharing ==
    \A s \in Addresses, c \in CIDs, v \in Addresses :
        (/\ cidExists[c] /\ ownerOf(c) # s /\ itemAccess[c][s]
         /\ v \notin {s, ownerOf(c)} /\ ~itemAccess[c][v])
            => grantRevert(s, c, v) = ""

\* a transaction that turns the grant (c, v) on is a successful grantItemAccess
\* sent by the owner of c, with its event
grantedByOwner(c, v) ==
    /\ cidExists[c]
    /\ lastCall' = [op |-> "grantItemAccess", err |-> ""]
    /\ events' = Append(events, ItemAccessGranted(c, ownerOf(c), v))

\* a transaction that turns the grant (c, v) off is a successful
\* revokeItemAccess sent by the owner of c, with its event
revokedByOwner(c, v) ==
    /\ cidExists[c]
    /\ lastCall' = [op |-> "revokeItemAccess", err |-> ""]
    /\ events' = Append(events, ItemAccessRevoked(c, ownerOf(c), v))

\* C14: no unauthorised grant.  For an existing item, grantItemAccess sent by
\* an address that neither owns it nor holds an active grant on it reverts for
\* every viewer; the reason is "Only owner can grant access" for every viewer
\* address, the caller itself included (for the null viewer the viewer check,
\* which comes first, gives the reason).  The reverted call changes no grant, no
\* viewer-index and nothing else; and a grant is only ever turned on by a
\* successful grantItemAccess of the item's owner.
C14_NoUnauthorisedGrant ==
    [][/\ \A s \in Addresses, c \in CIDs, v \in AllAddresses :
              (cidExists[c] /\ ownerOf(c) # s /\ ~itemAccess[c][s]) =>
                  /\ grantRevert(s, c, v) # ""
                  /\ v # ZeroAddress =>
                         grantRevert(s, c, v) = "Upload: Only owner can grant access"
       /\ lastCall' = [op |-> "grantItemAccess",
                       err |-> "Upload: Only owner can grant access"] =>
              UNCHANGED ledgerVars
       /\ \A c \in AllCids, v \in AllAddresses :
              (~itemAccess[c][v] /\ itemAccess'[c][v]) => grantedByOwner(c, v)]_vars

\* a non-owner's grant was rejected while a grant of the owner is active
C14_Witness ==
    /\ lastCall = [op |-> "grantItemAccess", err |-> "Upload: Only owner can grant access"]
    /\ \E c \in CIDs, v \in Addresses : itemAccess[c][v]

grantPreconditionErrors ==
    {"Upload: Item does not exist", "Upload: Invalid viewer address",
     "Upload: Cannot grant access to yourself", "Upload: Access already granted"}

\* C15: grantItemAccess precondition failures.  The call reverts with "Item
\* does not exist" for an unknown id and with "Invalid viewer address" for the
\* null viewer, whoever calls; sent by the owner it reverts with "Cannot grant
\* access to yourself" when the viewer is the caller and with "Access already
\* granted" when the pair is active.  Each of these reverts leaves the grants,
\* the viewer-index, its position index and the event log as they were.
C15_GrantPreconditions ==
    [][/\ \A s \in Addresses, c \in AllCids, v \in AllAddresses :
              /\ ~cidExists[c] => grantRevert(s, c, v) = "Upload: Item does not exist"
              /\ (cidExists[c] /\ v = ZeroAddress) =>
                     grantRevert(s, c, v) = "Upload: Invalid viewer address"
              /\ (cidExists[c] /\ s = ownerOf(c) /\ v = s) =>
                     grantRevert(s, c, v) = "Upload: Cannot grant access to yourself"
              /\ (cidExists[c] /\ s = ownerOf(c) /\ itemAccess[c][v]) =>
                     grantRevert(s, c, v) = "Upload: Access already granted"
       /\ (lastCall'.op = "grantItemAccess" /\ lastCall'.err \in grantPreconditionErrors) =>
              UNCHANGED <<itemAccess, sharedWithUserCIDs, sharedWithUserIndex, events,
                          cidToRecord, userOwnedCIDs, cidExists>>]_vars

\* the owner's second grant of an active pair was rejected
C15_Witness ==
    /\ lastCall = [op |-> "grantItemAccess", err |-> "Upload: Access already granted"]
    /\ \E c \in CIDs, v \in Addresses : itemAccess[c][v]

\* C16: revoke by a non-owner.  For an existing item, revokeItemAccess sent by
\* anyone but its owner (the viewer itself and other viewers included) reverts
\* with "Only owner can revoke access" and leaves every grant and viewer-index
\* as it was; a grant is only ever turned off by a successful revokeItemAccess
\* of the item's owner.
C16_RevokeByNonOwner ==
    [][/\ \A s \in Addresses, c \in CIDs, v \in AllAddresses :
              (cidExists[c] /\ s # ownerOf(c)) =>
                  revokeRevert(s, c, v) = "Upload: Only owner can revoke access"
       /\ lastCall' = [op |-> "revokeItemAccess",
                       err |-> "Upload: Only owner can revoke access"] =>
              UNCHANGED ledgerVars
       /\ \A c \in AllCids, v \in AllAddresses :
              (itemAccess[c][v] /\ ~itemAccess'[c][v]) => revokedByOwner(c, v)]_vars

\* a non-owner's revoke was rejected and the grant is still active
C16_Witness ==
    /\ lastCall = [op |-> "revokeItemAccess", err |-> "Upload: Only owner can revoke access"]
    /\ \E c \in CIDs, v \in Addresses : itemAccess[c][v]

\* C17: revoke without an active grant.  The owner's revokeItemAccess of a pair
\* that is not active (never granted, or revoked) reverts with "Access not
\* currently granted" and changes nothing; in particular, right after a
\* successful revoke the same revoke reverts.
C17_RevokeNotGranted ==
    [][/\ \A c \in CIDs, v \in AllAddresses :
              (cidExists[c] /\ ~itemAccess[c][v]) =>
                  revokeRevert(ownerOf(c), c, v) = "Upload: Access not currently granted"
       /\ lastCall' = [op |-> "revokeItemAccess", err |-> ""] =>
              revokeRevert(lastEvent.owner, lastEvent.ipfsCid, lastEvent.viewer)' =
                  "Upload: Access not currently granted"
       /\ lastCall' = [op |-> "revokeItemAccess",
                       err |-> "Upload: Access not currently granted"] =>
              UNCHANGED ledgerVars]_vars

\* a revoke was rejected after the pair had been revoked
C17_Witness ==
    /\ lastCall = [op |-> "revokeItemAccess", err |-> "Upload: Access not currently granted"]
    /\ Len(events) > 0 /\ lastEvent.name = "ItemAccessRevoked"
    /\ ~itemAccess[lastEvent.ipfsCid][lastEvent.viewer]

\* the grant (c, a) is active according to the event log: its last
\* ItemAccessGranted / ItemAccessRevoked event is an ItemAccessGranted
activeByLog(c, a) ==
    \E i \in 1..Len(events) :
        /\ events[i].name = "ItemAccessGranted"
        /\ events[i].ipfsCid = c /\ events[i].viewer = a
        /\ \A j \in (i + 1)..Len(events) :
               ~(/\ events[j].name = "ItemAccessRevoked"
                 /\ events[j].ipfsCid = c /\ events[j].viewer = a)

\* the ids caller a may see: the records it owns and those granted to it now
accessibleIds(a) ==
    {c \in AllCids : cidExists[c] /\ (ownerOf(c) = a \/ itemAccess[c][a])}

\* C18: getAccessibleCIDsAndHashes.  In every reachable state and for every
\* caller the returned rows are exactly the records the caller owns plus the
\* records granted to it now, each once, each with the fingerprint and owner
\* the record was created with; an id whose grant to the caller was revoked is
\* not among them.
C18_GetAccessibleCorrect ==
    \A a \in AllAddresses :
        LET rows == getAccessibleCIDsAndHashes(a)
        IN  /\ {rows[i].cid : i \in 1..Len(rows)} = accessibleIds(a)
            /\ \A i, j \in 1..Len(rows) : rows[i].cid = rows[j].cid => i = j
            /\ \A i \in 1..Len(rows) :
                   \E r \in announced(rows[i].cid) :
                       rows[i].hash = r.imageHash /\ rows[i].owner = r.owner
            /\ \A i \in 1..Len(rows) :
                   rows[i].owner = a \/ activeByLog(rows[i].cid, a)

\* a caller that owns a record, holds a grant on another and had lost it before
C18_Witness ==
    \E a \in Addresses, c \in CIDs :
        /\ Cardinality(accessibleIds(a)) = 2
        /\ itemAccess[c][a]
        /\ \E i \in 1..Len(events) :
               events[i] = ItemAccessRevoked(c, ownerOf(c), a)

\* C19: checkItemAccess.  It returns true exactly when the id exists and the
\* identity is the record's owner or holds a grant that is active now (the
\* last grant or revoke logged for the pair is a grant); for an id that was
\* never added it returns false for every identity, the null address included.
C19_CheckItemAccess ==
    \A c \in AllCids, a \in AllAddresses :
        /\ checkItemAccess(c, a) <=>
               /\ announced(c) # {}
               /\ (\E r \in announced(c) : r.owner = a) \/ activeByLog(c, a)
        /\ checkItemAccess(c, a) <=> (cidExists[c] /\ (ownerOf(c) = a \/ itemAccess[c][a]))
        /\ ~cidExists[c] => ~checkItemAccess(c, a)

\* one id unknown, the other with an owner, a viewer and a revoked viewer
C19_Witness ==
    \E c, d \in CIDs, a, b \in Addresses :
        /\ ~cidExists[d] /\ cidExists[c]
        /\ a # ownerOf(c) /\ checkItemAccess(c, a)
        /\ ~checkItemAccess(c, b)
        /\ \E i \in 1..Len(events) : events[i] = ItemAccessRevoked(c, ownerOf(c), b)

\* C20: no duplicate in a viewer-index.  In every reachable state the list of
\* ids shared with an identity holds no id twice, also after revoke and
\* re-grant of the same pair.
C20_ViewerIndexNoDuplicates ==
    \A a \in AllAddresses :
        \A i, j \in 1..Len(sharedWithUserCIDs[a]) :
            sharedWithUserCIDs[a][i] = sharedWithUserCIDs[a][j] => i = j

\* a pair granted, revoked and granted again, its id in the viewer's list
C20_Witness ==
    \E a \in Addresses, c \in CIDs :
        /\ \E i, j, k \in 1..Len(events) :
               /\ i < j /\ j < k
               /\ events[i] = ItemAccessGranted(c, ownerOf(c), a)
               /\ events[j] = ItemAccessRevoked(c, ownerOf(c), a)
               /\ events[k] = ItemAccessGranted(c, ownerOf(c), a)
        /\ \E n \in 1..Len(sharedWithUserCIDs[a]) : sharedWithUserCIDs[a][n] = c

(* ---------------- C21..C30: indexes, events, verification -------------- *)
\* the ids in the list of items shared with identity a
viewerIndex(a) == {sharedWithUserCIDs[a][n] : n \in 1..Len(sharedWithUserCIDs[a])}

\* a grant of (c, a) was made at some time, active or not
everGranted(c, a) ==
    \E i \in 1..Len(events) :
        /\ events[i].name = "ItemAccessGranted"
        /\ events[i].ipfsCid = c /\ events[i].viewer = a

\* C21 as the data model states it: an id is in the viewer-index of an
\* identity exactly when a grant of the pair exists or has ever existed.
C21_ViewerIndexEverGranted ==
    \A a \in AllAddresses, c \in AllCids : c \in viewerIndex(a) <=> everGranted(c, a)

\* C21 as the contract keeps it: an id is in the viewer-index of an identity
\* exactly when the grant of the pair is active now; revokeItemAccess takes the
\* id out of the list.
C21_ViewerIndexActiveGrants ==
    \A a \in AllAddresses, c \in AllCids :
        /\ c \in viewerIndex(a) <=> itemAccess[c][a]
        /\ c \in viewerIndex(a) <=> activeByLog(c, a)

\* a viewer with two shared ids lost the first of them
C21_Witness ==
    \E a \in Addresses, c, d \in CIDs :
        /\ c # d /\ sharedWithUserCIDs[a] = <<d>>
        /\ Len(events) >= 3
        /\ events[Len(events) - 2] = ItemAccessGranted(c, ownerOf(c), a)
        /\ events[Len(events) - 1] = ItemAccessGranted(d, ownerOf(d), a)
        /\ lastEvent = ItemAccessRevoked(c, ownerOf(c), a)

\* C22: the owner is not in the grant relation of its own record.  For every
\* record, itemAccess[id][owner] is false and id is not in the owner's list of
\* shared ids, and checkItemAccess(id, owner) is true.
C22_OwnerNotInRelation ==
    \A c \in AllCids :
        cidExists[c] =>
            /\ ownerOf(c) \in Addresses
            /\ ~itemAccess[c][ownerOf(c)]
            /\ c \notin viewerIndex(ownerOf(c))
            /\ checkItemAccess(c, ownerOf(c))

\* the owner tried to grant its own record to itself, and owns a viewer's record
C22_Witness ==
    /\ lastCall = [op |-> "grantItemAccess", err |-> "Upload: Cannot grant access to yourself"]
    /\ \E c \in CIDs : cidExists[c] /\ viewerIndex(ownerOf(c)) # {}

\* the ImageAdded events of content id c, by position in the log
addedAt(c) ==
    {i \in 1..Len(events) : events[i].name = "ImageAdded" /\ events[i].ipfsCid = c}

\* how many times content id c stands in the lists of owned ids, all owners together
ownedEntries(c) ==
    Cardinality({<<a, n>> \in AllAddresses \X (1..Cardinality(AllCids)) :
                    n <= Len(userOwnedCIDs[a]) /\ userOwnedCIDs[a][n] = c})

\* C23: concurrent submissions of one content id.  While the client runs its
\* write path other callers add the same id at any point.  The add that is
\* applied first creates the record and fixes its owner; an add applied to an
\* id that exists reverts with "CID already exists" and changes nothing (the
\* client then reports the failure and has recorded nothing); an id never has
\* two records, two ImageAdded events or two owners.
C23_ConcurrentSameId ==
    [][/\ lastCall'.op = "add" /\ lastCall'.err = "Upload: CID already exists" =>
              UNCHANGED ledgerVars
       /\ (pc = "mining" /\ pc' = "idle") =>
              IF cidExists[fileCid]
              THEN /\ lastCall' = [op |-> "add", err |-> "Upload: CID already exists"]
                   /\ ~recorded' /\ message' = "Blockchain transaction failed"
                   /\ UNCHANGED ledgerVars
              ELSE /\ lastCall' = [op |-> "add", err |-> ""]
                   /\ recorded' /\ ownerOf(fileCid)' = account
                   /\ lastEvent' = ImageAdded(account, fileCid, calculatedHash,
                                               cidToRecord'[fileCid].timestamp)
       /\ \A c \in AllCids :
              /\ cidExists[c] => cidToRecord'[c] = cidToRecord[c]
              /\ Cardinality(addedAt(c)') = (IF cidExists'[c] THEN 1 ELSE 0)
              /\ ownedEntries(c)' = (IF cidExists'[c] THEN 1 ELSE 0)
              /\ cidExists'[c] =>
                     \A i \in addedAt(c)' : events'[i].owner = ownerOf(c)']_vars

\* the client's add was applied after another caller's add of the same id
C23_Witness ==
    /\ pc = "idle" /\ addCalls = 1 /\ ~recorded
    /\ message = "Blockchain transaction failed"
    /\ lastCall = [op |-> "add", err |-> "Upload: CID already exists"]
    /\ cidExists[fileCid] /\ ownerOf(fileCid) # account

\* C28: audit events.  Every successful add, grantItemAccess and
\* revokeItemAccess appends exactly one event, of its kind, carrying the id,
\* the caller (the owner the call was sent by) and, for grant and revoke, the
\* viewer it acted on, and for add the stored fingerprint and timestamp; every
\* reverted call leaves the log as it was; each record id has exactly one
\* ImageAdded event and no other id has any.
C28_AuditEvents ==
    [][/\ lastCall'.err # "" => events' = events
       /\ lastCall'.err = "" =>
              /\ events' = Append(events, lastEvent')
              /\ LET e == lastEvent'
                     c == e.ipfsCid
                 IN  CASE lastCall'.op = "add" ->
                              /\ e.name = "ImageAdded"
                              /\ ~cidExists[c] /\ cidExists'[c]
                              /\ cidToRecord'[c] =
                                     ImageRecord(c, e.imageHash, e.owner, e.timestamp)
                              /\ e.owner \in Addresses
                       [] lastCall'.op = "grantItemAccess" ->
                              /\ e.name = "ItemAccessGranted"
                              /\ cidExists[c] /\ e.owner = ownerOf(c)
                              /\ ~itemAccess[c][e.viewer] /\ itemAccess'[c][e.viewer]
                              /\ \A d \in AllCids, v \in AllAddresses :
                                     <<d, v>> # <<c, e.viewer>> =>
                                         itemAccess'[d][v] = itemAccess[d][v]
                       [] lastCall'.op = "revokeItemAccess" ->
                              /\ e.name = "ItemAccessRevoked"
                              /\ cidExists[c] /\ e.owner = ownerOf(c)
                              /\ itemAccess[c][e.viewer] /\ ~itemAccess'[c][e.viewer]
                              /\ \A d \in AllCids, v \in AllAddresses :
                                     <<d, v>> # <<c, e.viewer>> =>
                                         itemAccess'[d][v] = itemAccess[d][v]
       /\ \A c \in AllCids :
              Cardinality(addedAt(c)') = (IF cidExists'[c] THEN 1 ELSE 0)]_vars

\* the log holds an event of each kind and a call has just been reverted
C28_Witness ==
    /\ lastCall.err # ""
    /\ \A n \in {"ImageAdded", "ItemAccessGranted", "ItemAccessRevoked"} :
           \E i \in 1..Len(events) : events[i].name = n

\* the ItemAccessGranted events of content id c, by position in the log
grantedAt(c) ==
    {i \in 1..Len(events) : events[i].name = "ItemAccessGranted" /\ events[i].ipfsCid = c}

\* the k-th smallest element of a set of positions
kthPosition(S, k) == CHOOSE i \in S : Cardinality({j \in S : j < i}) = k - 1

\* C29: traceability query.  For every id, however its ItemAccessGranted
\* events are spread over blocks, fetchTrace yields one step per ItemAccessGranted event logged for
\* that id and none for events of other ids or other kinds, in log order, the
\* k-th step carrying the granter (the caller of that grantItemAccess, the
\* owner of the item) and the viewer of the k-th such event.
C29_TraceQuery ==
    \A c \in CIDs : \A blockOf \in BlockNumberings(Len(events), grantedAt(c)) :
        LET trace == fetchTrace(c, blockOf)
        IN  /\ Len(trace) = Cardinality(grantedAt(c))
            /\ \A k \in 1..Len(trace) :
                   LET e == events[kthPosition(grantedAt(c), k)]
                   IN  /\ trace[k].granter = e.owner /\ trace[k].viewer = e.viewer
                       /\ trace[k].granter = ownerOf(c)
                       /\ trace[k].blockNumber = blockOf[kthPosition(grantedAt(c), k)]

\* an item granted to two viewers and another item granted to one
C29_Witness ==
    \E c, d \in CIDs :
        /\ c # d /\ Cardinality(grantedAt(c)) = 2 /\ Cardinality(grantedAt(d)) = 1
        /\ Len(fetchTrace(c, [i \in 1..Len(events) |-> 1])) = 2

\* the (content id, fingerprint) pairs that come from one and the same file
sameFilePairs == {<<IpfsHash(f), calculateFileHash(f)>> : f \in Files}

\* C30: write-path order and binding.  Within one submission the fingerprint
\* is computed before the detector queries are sent and the decision taken,
\* the pin request is sent only after the decision "real", and contract.add is
\* called only after the one pin request returned a non-empty content id, with
\* that id and the fingerprint computed in the first step from the same file;
\* the record it creates holds exactly this pair and the client's account.
C30_WritePathOrder ==
    /\ pc \in {"idle", "hashing", "awaitNodes", "pinning", "sending", "mining"}
    /\ pc = "hashing" =>
           /\ calculatedHash = "" /\ consensusOutcome = NoOutcome
           /\ \A n \in Nodes : queriesIssued[n] = 0
    /\ (\E n \in Nodes : queriesIssued[n] > 0) => calculatedHash # ""
    /\ pc = "awaitNodes" => consensusOutcome = NoOutcome
    /\ pc \in {"hashing", "awaitNodes"} => pinRequests = 0
    /\ consensusOutcome # NoOutcome => \A n \in Nodes : queriesIssued[n] = 1
    /\ pinRequests > 0 => pinRequests = 1 /\ consensusOutcome.consensus = "real"
    /\ pc = "pinning" => pinRequests = 1 /\ addCalls = 0 /\ fileCid = ""
    /\ pc \in {"hashing", "awaitNodes", "pinning"} => addCalls = 0 /\ ~recorded
    /\ addCalls > 0 =>
           /\ addCalls = 1 /\ pinRequests = 1
           /\ fileCid # "" /\ <<fileCid, calculatedHash>> \in sameFilePairs
    /\ pc \in {"hashing", "awaitNodes", "pinning", "sending", "mining"} =>
           /\ file \in Files
           /\ calculatedHash # "" => calculatedHash = calculateFileHash(file)
           /\ fileCid # "" => fileCid = IpfsHash(file)
    /\ pc \in {"sending", "mining"} => addCalls = 1 /\ ~recorded
    /\ recorded =>
           /\ addCalls = 1
           /\ cidToRecord[fileCid].ipfsCid = fileCid
           /\ cidToRecord[fileCid].imageHash = calculatedHash
           /\ cidToRecord[fileCid].owner = account

\* a submission went through all four steps and its record is on the ledger
C30_Witness ==
    /\ pc = "idle" /\ recorded /\ addCalls = 1 /\ pinRequests = 1
    /\ consensusOutcome.consensus = "real"
    /\ cidToRecord[fileCid].imageHash = calculatedHash

\* C24: hashing fails on a zero-length input on both paths.  On the commit
\* path a submission of an empty file never holds a fingerprint
\* (calculateFileHash produced none); on the verify path
\* calculateArrayBufferHash throws for the empty buffer, whether or not the
\* digest itself would work.
C24_EmptyInputFails ==
    /\ (pc # "idle" /\ file # NoFile /\ byteLength(arrayBuffer(file)) = 0) =>
           calculatedHash = "" /\ fileHash = ""
    /\ \A digestWorks \in BOOLEAN : calculateArrayBufferHash("", digestWorks).threw

\* the SHA-256 fingerprint of non-empty bytes, in hex
fingerprint(buffer) ==
    LET hashArray == digest(buffer)
    IN  join([i \in 1..Len(hashArray) |-> byteToHex(hashArray[i])])

\* two fingerprints that are equal up to the case of their letters
equalIgnoringCase(a, b) ==
    /\ Len(a) = Len(b)
    /\ \A i \in 1..Len(a) : lowerChar(SubSeq(a, i, i)) = lowerChar(SubSeq(b, i, i))

\* the running verifyHash calls that a step ends
endedRuns ==
    {run \in BagToSet(verifications) :
        CopiesIn(run, verifications') < CopiesIn(run, verifications)}

\* C25: verifyHash yields 'verified' exactly when the digest of the fetched
\* bytes equals the expected fingerprint compared case-insensitively, and
\* 'mismatch' exactly when the bytes are non-empty and the digests differ: a
\* verifyHash call whose digest is computed sets the item's status to
\* 'verified' iff the two are equal up to case and to 'mismatch' iff the bytes
\* are non-empty and they differ, a status becomes 'verified' or 'mismatch'
\* only in this way, and content checked against its own fingerprint is never
\* reported as 'mismatch' and is 'verified' whenever the digest is computed.
C25_VerifiedIffDigestsEqual ==
    [][/\ \A run \in endedRuns :
              hashSettled(run, TRUE) =>
                  LET equal == equalIgnoringCase(fingerprint(run.fileBuffer), run.expectedHash)
                      status == verificationStatus'[run.itemId]
                  IN  /\ status = "verified" <=> equal
                      /\ status = "mismatch" <=> (byteLength(run.fileBuffer) > 0 /\ ~equal)
                      /\ run.expectedHash = fingerprint(run.fileBuffer) => status = "verified"
       /\ \A c \in AllCids :
              (verificationStatus'[c] \in {"verified", "mismatch"}
                   /\ verificationStatus'[c] # verificationStatus[c]) =>
                  \E run \in endedRuns :
                      /\ run.itemId = c /\ run.stage = "hash"
                      /\ byteLength(run.fileBuffer) > 0
                      /\ verificationStatus'[c] = "verified" <=>
                             equalIgnoringCase(fingerprint(run.fileBuffer), run.expectedHash)
      ]_vars

\* the item recorded with the upper-case fingerprint of its content is
\* verified, and the other item is reported as a mismatch
C25_Witness ==
    \E k, m \in 1..Len(displayData) :
        /\ displayData[k].hash = "559AEAD08264"
        /\ verificationStatus[displayData[k].id] = "verified"
        /\ verificationStatus[displayData[m].id] = "mismatch"

\* a step in which the fetch of a running verifyHash call fails (network
\* error, non-OK response, body not delivered) or delivers an empty payload
fetchFails(run) ==
    \/ \E kind \in {"networkError", "notOk"} : fetchSettled(run, kind)
    \/ \E fileBuffer \in Buffers : bodySettled(run, FALSE, fileBuffer)
    \/ bodySettled(run, TRUE, "")

\* C26: in verifyHash a fetch failure (network error or non-OK response) or
\* an empty fetched payload always ends in status 'error' and never in
\* 'mismatch' or 'verified': the step sets the item's status to 'error' and
\* ends the call, so that this call sets no status afterwards, and no call
\* ever hashes an empty payload.
C26_FetchFailureIsError ==
    [][/\ \A run \in BagToSet(verifications) :
              (run.stage \in {"fetch", "body"} /\ fetchFails(run)) =>
                  /\ verificationStatus'[run.itemId] = "error"
                  /\ run \in endedRuns
                  /\ BagCardinality(verifications') = BagCardinality(verifications) - 1
       /\ \A run \in BagToSet(verifications') :
              run.stage = "hash" => byteLength(run.fileBuffer) > 0
      ]_vars

\* the verification of the item of the empty content has ended in 'error'
\* while the one of the other item is still waiting for its response
C26_Witness ==
    /\ verificationStatus[cidE] = "error"
    /\ BagToSet(verifications) # {}
    /\ \A run \in BagToSet(verifications) : run.itemId = cidA /\ run.stage = "fetch"

\* C27: verification is read-only with respect to the ledger.  Every step of
\* a verifyHash call (its start, each await that settles, its end with
\* 'verified', 'mismatch' or 'error') leaves the records, indexes, grants and
\* the event log as they are and sends no transaction; of the display it
\* changes nothing but the verification status of the call's own item.
C27_VerifyReadOnly ==
    [][verifications' # verifications =>
           /\ UNCHANGED <<cidToRecord, userOwnedCIDs, itemAccess, sharedWithUserCIDs,
                          sharedWithUserIndex, cidExists, events>>
           /\ lastCall' = lastCall /\ addCalls' = addCalls /\ pinRequests' = pinRequests
           /\ UNCHANGED <<displayData, displayMessage, loading>>
           /\ \E run \in BagToSet(verifications) \cup BagToSet(verifications') :
                  \A c \in AllCids \ {run.itemId} :
                      verificationStatus'[c] = verificationStatus[c]
      ]_vars

\* the verifications of both items have ended, one as 'verified' and one as
\* 'error', and the ledger holds the two records and the two events of their
\* adds, the last transaction being the second add
C27_Witness ==
    /\ verificationStatus[cidA] = "verified"
    /\ verificationStatus[cidE] = "error"
    /\ verifications = EmptyBag
    /\ Len(events) = 2 /\ cidExists[cidA] /\ cidExists[cidE]
    /\ lastCall = [op |-> "add", err |-> ""]

(* ------------- C31..C39: statuses, indexes, log, variants -------------- *)
SuccessStatus == "Successfully uploaded. CID and Hash recorded on the blockchain!"
\* the statuses handleSubmit ends with
FinalStatuses ==
    {SuccessStatus,
     "Consensus: Deepfake Detected. Upload cancelled.",
     "Consensus Inconclusive. Upload cancelled.",
     "Pinata upload error", "Upload failed",
     "Transaction rejected in MetaMask.", "Blockchain transaction failed"}

\* a submission has ended: loading is cleared, one final status is shown, and
\* it is the success status exactly when the submission's add was confirmed
\* and created the record of its content id for the account
submissionEnded ==
    /\ pc = "idle" /\ ~isLoading
    /\ message \in FinalStatuses
    /\ message = SuccessStatus <=> recorded
    /\ recorded =>
           /\ addCalls = 1 /\ fileCid # "" /\ cidExists[fileCid]
           /\ cidToRecord[fileCid].owner = account

\* C31: every submission that starts ends with exactly one final status and
\* with the loading flag cleared, the success status being shown if and only
\* if this submission's ledger add was confirmed, every other final status
\* only when this submission created no record.
C31_SubmissionEnds == isLoading ~> submissionEnded

\* the running verifyHash calls that a step starts, resumes or ends
steppedRuns ==
    {run \in BagToSet(verifications) \cup BagToSet(verifications') :
        CopiesIn(run, verifications') # CopiesIn(run, verifications)}

\* C32: concurrent verifications are independent.  In any interleaving, a
\* step of a verifyHash call for item A changes the status entry of A only:
\* the status entry of every other item B stays as it is, and so does every
\* running call for another item (its await and its fetched bytes).
C32_VerificationsIndependent ==
    [][verifications' # verifications =>
           \E A \in AllCids :
               /\ \A run \in steppedRuns : run.itemId = A
               /\ \A B \in AllCids \ {A} :
                      /\ verificationStatus'[B] = verificationStatus[B]
                      /\ \A run \in BagToSet(verifications) :
                             run.itemId = B =>
                                 CopiesIn(run, verifications') = CopiesIn(run, verifications)
      ]_vars

\* two calls for different items are running, both past their fetch, while
\* the statuses of both items are 'verifying'
C32_Witness ==
    \E runA, runB \in BagToSet(verifications) :
        /\ runA.itemId # runB.itemId
        /\ runA.stage = "hash" /\ runB.stage = "body"
        /\ verificationStatus[runA.itemId] = "verifying"
        /\ verificationStatus[runB.itemId] = "verifying"

\* the slots of viewer v's shared list that hold content id c (slot n of the
\* sequence is position n - 1 of the contract's array)
slotsOf(v, c) ==
    {n \in 1..Len(sharedWithUserCIDs[v]) : sharedWithUserCIDs[v][n] = c}

\* C33: swap-and-pop position index.  In every reachable state, for every
\* viewer v and id, sharedWithUserIndex[v][id] is the position of id in
\* sharedWithUserCIDs[v] plus one when id is in that array, and 0 when it is
\* absent; this covers the element a revoke moved from the last slot into the
\* freed slot.
C33_PositionIndex ==
    \A v \in AllAddresses, c \in AllCids :
        IF slotsOf(v, c) = {}
        THEN sharedWithUserIndex[v][c] = 0
        ELSE slotsOf(v, c) = {sharedWithUserIndex[v][c]}

\* viewer v was granted d and then c, and the revoke of d has moved c from
\* the last slot into the first
C33_Witness ==
    \E v \in Addresses, c, d \in CIDs :
        /\ c # d
        /\ \E i, j \in 1..Len(events) :
               /\ i < j /\ j < Len(events)
               /\ events[i].name = "ItemAccessGranted"
               /\ events[i].ipfsCid = d /\ events[i].viewer = v
               /\ events[j].name = "ItemAccessGranted"
               /\ events[j].ipfsCid = c /\ events[j].viewer = v
        /\ lastEvent.name = "ItemAccessRevoked"
        /\ lastEvent.ipfsCid = d /\ lastEvent.viewer = v
        /\ sharedWithUserCIDs[v] = <<c>>
        /\ sharedWithUserIndex[v][c] = 1

\* the ids viewer v holds an active grant on
grantedTo(v) == {c \in AllCids : itemAccess[c][v]}

\* C34: the viewer-index mirrors the grant relation exactly.  In every
\* reachable state, for every viewer v, the elements of sharedWithUserCIDs[v]
\* are the ids with itemAccess[id][v] true, one entry for each.
C34_IndexMirrorsGrants ==
    \A v \in AllAddresses :
        /\ \A c \in AllCids : slotsOf(v, c) # {} <=> itemAccess[c][v]
        /\ Len(sharedWithUserCIDs[v]) = Cardinality(grantedTo(v))

\* one viewer holds a grant that was revoked and made again, another viewer
\* holds none
C34_Witness ==
    \E v, w \in Addresses, c \in CIDs :
        /\ v # w /\ grantedTo(v) = {c} /\ sharedWithUserCIDs[v] = <<c>>
        /\ grantedTo(w) = {} /\ sharedWithUserCIDs[w] = <<>>
        /\ \E i \in 1..Len(events) :
               /\ events[i].name = "ItemAccessRevoked"
               /\ events[i].ipfsCid = c /\ events[i].viewer = v

\* the reasons of the two internal consistency requires of revokeItemAccess
InternalRevokeErrors ==
    {"Upload: CID not found in viewer's shared list index", "Upload: Index out of bounds"}

\* C35: the internal consistency checks of revokeItemAccess are never the
\* reason a call fails.  In every reachable state in which the id exists, the
\* caller is its owner and itemAccess[id][viewer] is true, the recorded index
\* is greater than 0 and within the bounds of the viewer's shared list, so
\* the revoke passes every require; for no caller and no arguments is one of
\* the two internal reasons the first failing require, and no transaction
\* has reverted with one.
C35_RevokeChecksNeverFail ==
    /\ \A s \in Addresses, c \in AllCids, v \in AllAddresses :
           /\ (cidExists[c] /\ cidToRecord[c].owner = s /\ itemAccess[c][v]) =>
                  /\ sharedWithUserIndex[v][c] > 0
                  /\ sharedWithUserIndex[v][c] - 1 < Len(sharedWithUserCIDs[v])
                  /\ revokeRevert(s, c, v) = ""
           /\ revokeRevert(s, c, v) \notin InternalRevokeErrors
    /\ lastCall.err \notin InternalRevokeErrors

\* the owner's revoke of the id in the last slot of a list of two succeeded
C35_Witness ==
    \E v \in Addresses, c, d \in CIDs :
        /\ c # d
        /\ lastCall = [op |-> "revokeItemAccess", err |-> ""]
        /\ lastEvent = ItemAccessRevoked(c, ownerOf(c), v)
        /\ sharedWithUserCIDs[v] = <<d>> /\ sharedWithUserIndex[v][d] = 1
        /\ \E i \in 1..Len(events) :
               /\ i + 1 < Len(events)
               /\ events[i] = ItemAccessGranted(d, ownerOf(d), v)
               /\ events[i + 1] = ItemAccessGranted(c, ownerOf(c), v)

\* the ledger state an observer rebuilds from the first n events of the log,
\* starting from the empty state: the records and the grant relation
RECURSIVE replay(_)
replay(n) ==
    IF n = 0
    THEN [records |-> [c \in AllCids |-> EmptyRecord],
          exists |-> [c \in AllCids |-> FALSE],
          access |-> [c \in AllCids |-> [a \in AllAddresses |-> FALSE]]]
    ELSE LET before == replay(n - 1)
             e == events[n]
         IN  IF e.name = "ImageAdded"
             THEN [before EXCEPT
                      !.records[e.ipfsCid] =
                          [ipfsCid |-> e.ipfsCid, imageHash |-> e.imageHash,
                           owner |-> e.owner, timestamp |-> e.timestamp],
                      !.exists[e.ipfsCid] = TRUE]
             ELSE [before EXCEPT
                      !.access[e.ipfsCid][e.viewer] = (e.name = "ItemAccessGranted")]

\* the positions of the grant and revoke events of the pair (c, v)
pairEvents(c, v) ==
    {i \in 1..Len(events) :
        /\ events[i].name \in {"ItemAccessGranted", "ItemAccessRevoked"}
        /\ events[i].ipfsCid = c /\ events[i].viewer = v}

\* C36: the event log is a faithful history of the ledger.  Replaying the log
\* from the empty state gives the current records (ids, owners, fingerprints)
\* and the current grant relation: the records are those of the ImageAdded
\* events, one event per record, a pair (id, viewer) is active iff the latest
\* ItemAccessGranted/ItemAccessRevoked event of the pair is a grant, and per
\* pair grant and revoke events strictly alternate starting with a grant.
C36_LogIsHistory ==
    /\ replay(Len(events)).records = cidToRecord
    /\ replay(Len(events)).exists = cidExists
    /\ replay(Len(events)).access = itemAccess
    /\ \A c \in AllCids :
           /\ Cardinality(addedAt(c)) = (IF cidExists[c] THEN 1 ELSE 0)
           /\ \A i \in addedAt(c) :
                  /\ events[i].owner = cidToRecord[c].owner
                  /\ events[i].imageHash = cidToRecord[c].imageHash
    /\ \A c \in AllCids, v \in AllAddresses :
           LET S == pairEvents(c, v)
           IN  /\ itemAccess[c][v] <=>
                      (S # {} /\ events[kthPosition(S, Cardinality(S))].name = "ItemAccessGranted")
               /\ \A k \in 1..Cardinality(S) :
                      events[kthPosition(S, k)].name =
                          (IF k % 2 = 1 THEN "ItemAccessGranted" ELSE "ItemAccessRevoked")

\* two records exist and one pair was granted, revoked and granted again
C36_Witness ==
    /\ \A c \in CIDs : cidExists[c]
    /\ \E c \in CIDs, v \in Addresses :
           /\ Cardinality(pairEvents(c, v)) = 3
           /\ itemAccess[c][v]
           /\ replay(Len(events)).access[c][v]

\* the number of verifyHash calls running for item c
runningFor(c) ==
    LET runs == {run \in BagToSet(verifications) : run.itemId = c}
    IN  IF runs = {} THEN 0
        ELSE BagCardinality([run \in runs |-> CopiesIn(run, verifications)])

\* C37: a verification result is applied only to the status generation it was
\* started in.  A status becomes 'verified', 'mismatch' or 'error' only from
\* 'verifying' and by the one call running for the item, so that after
\* getdata has reset the statuses every status stays 'idle' until a new
\* verification of the item is started (a call started before the reset
\* changes no status), and at most one verification per item is in flight.
C37_ResultsOfOldGenerationDropped ==
    [][\A c \in AllCids :
           /\ (verificationStatus'[c] # verificationStatus[c]
                   /\ verificationStatus'[c] \in {"verified", "mismatch", "error"}) =>
                  verificationStatus[c] = "verifying" /\ runningFor(c) = 1
           /\ (verificationStatus[c] = "idle" /\ verificationStatus'[c] # "idle") =>
                  verificationStatus'[c] \in {"verifying", undefined}
           /\ runningFor(c)' <= 1
      ]_vars

grantActive(u, c) ==
    LET changes == {i \in 1..Len(ownerLevelEvents) :
                       /\ ownerLevelEvents[i].name = "AccessChanged"
                       /\ ownerLevelEvents[i].owner = u
                       /\ ownerLevelEvents[i].viewer = c}
    IN  /\ changes # {}
        /\ ownerLevelEvents[CHOOSE i \in changes : \A j \in changes : j <= i].granted

\* the ImageAdded events of the log for owner u, in order
RECURSIVE addedUnder(_, _)
addedUnder(log, u) ==
    IF log = <<>> THEN <<>>
    ELSE LET e == log[Len(log)]
             before == addedUnder(SubSeq(log, 1, Len(log) - 1), u)
         IN  IF e.name = "ImageAdded" /\ e.owner = u THEN Append(before, e) ELSE before

\* C39: in the owner-level contract display(u) called by c returns the records
\* of u iff c = u or the grant of u to c is active (allowed and not disallowed
\* since), it fails otherwise, and checkAccess(u, c) agrees with its success.
C39_DisplayIffGrantActive ==
    /\ \A u \in Addresses, c \in Addresses :
          LET result == ownerLevelDisplay(c, u)
              added == addedUnder(ownerLevelEvents, u)
          IN  /\ ~result.threw <=> (c = u \/ grantActive(u, c))
              /\ ~result.threw =>
                    /\ result.value.cids = [i \in 1..Len(added) |-> added[i].ipfsCid]
                    /\ result.value.hashes = [i \in 1..Len(added) |-> added[i].imageHash]
              /\ checkAccess(u, c) <=> ~result.threw
    /\ ownerLevelCall.op = "display" =>
          (ownerLevelCall.err = "" <=>
              \/ ownerLevelCall.sender = ownerLevelCall.arg
              \/ grantActive(ownerLevelCall.arg, ownerLevelCall.sender))

\* a display by a viewer whose grant was given and then taken away has failed,
\* while the owner has a record to show
C39_Witness ==
    /\ ownerLevelCall.op = "display"
    /\ ownerLevelCall.err = "Upload: You don't have access"
    /\ ownerLevelCall.sender # ownerLevelCall.arg
    /\ \E i \in 1..Len(ownerLevelEvents), j \in 1..Len(ownerLevelEvents) :
          /\ i < j
          /\ ownerLevelEvents[i] = AccessChanged(ownerLevelCall.arg, ownerLevelCall.sender, TRUE)
          /\ ownerLevelEvents[j] = AccessChanged(ownerLevelCall.arg, ownerLevelCall.sender, FALSE)
    /\ Len(imageData[ownerLevelCall.arg]) > 0

====
